---- MODULE Spec2Model ----
(***************************************************************************)
(* Verification model of programs/fileio.c, the zstd file engine.          *)
(*                                                                         *)
(* The specifications below share one list of variables:                   *)
(*   SpecPrefs     - the preference setters                                *)
(*   SpecSparse    - FIO_fwriteSparse / FIO_fwriteSparseEnd on one file    *)
(*   SpecZstdC     - the read/compress loop of FIO_compressZstdFrame       *)
(*   Spec          - the job orchestrator: single-file and batch runs,     *)
(*                   destination lifecycle, source removal, SIGINT         *)
(*   SpecFrames    - FIO_decompressFrames and the frame decoders           *)
(*   SpecRoundTrip - compression of one input, then its decompression      *)
(*   SpecAdapt     - the adaptive level control of FIO_compressZstdFrame   *)
(*   SpecNames     - FIO_determineDstName                                  *)
(*   SpecGuard     - addHandler / clearHandler called in any order         *)
(*   SpecExclude   - compression jobs that may exclude compressed files    *)
(*   SpecOpenDst   - one call of FIO_openDstFile                           *)
(*   SpecSkips     - the sparse writer fed with the buffers of a decoder   *)
(*   FairFrames    - SpecFrames on its own sources, with fair scheduling   *)
(*   SpecLongFrames- SpecFrames on frames longer than the source buffer    *)
(*   SpecPatch     - creation of the resources : patch-from adjustment,    *)
(*                   dictionary loader, parameters of the codec            *)
(*   SpecPair      - two adaptive runs that differ in the progress setting *)
(***************************************************************************)
EXTENDS Integers, Sequences, FiniteSets, TLC

VARIABLES
    prefs,        \* FIO_prefs_t
    displayLevel, \* g_display_prefs.displayLevel
    proc,         \* the process: running, returned (code), exited (code), killed
    op,           \* "compress" or "decompress"
    mode,         \* "single", "perfile" (one dst per src), "oneout" (one explicit dst)
    srcNames,     \* inFileNamesTable / srcNamesTable
    outFileName,  \* explicit destination name, or NoName
    fs,           \* file system: name -> kind
    data,         \* file system: name -> content (sequence of tokens)
    fCtx,         \* FIO_ctx_t
    pc,           \* position of the orchestrator
    dstName,      \* dstFileName of the current per-file run
    srcFile,      \* name behind the open source handle, or NoName
    srcPos,       \* tokens of the source already consumed by the decoder
    dstFile,      \* ress.dstFile: NoFile or [name, own, linked]
    result,       \* result of the current per-file run
    error,        \* error accumulator of the batch
    status,       \* input -> value returned by its per-file run, once it has returned
    g_artefact,   \* signal guard path
    sigint,       \* disposition of SIGINT: "DFL" or "INThandler"
    eng,          \* steps done by the compression engine in the current run
    hist,         \* history: what happened so far (never read by the program)
    sw,           \* sparse writer: file, position, storedSkips and the bytes passed
    cz,           \* zstd compression loop of one file
    dz,           \* frame dispatcher and frame decoders of one source
    ad,           \* adaptive compression level control
    nm            \* file name derivation; in a job, the inputs with a compressed extension;
                  \* in SpecPatch the creation of the resources; in SpecPair the second run

vars == << prefs, displayLevel, proc, op, mode, srcNames, outFileName, fs, data,
           fCtx, pc, dstName, srcFile, srcPos, dstFile, result, error, status,
           g_artefact, sigint, eng, hist, sw, cz, dz, ad, nm >>

jobVars == << op, mode, srcNames, outFileName, fs, data, fCtx, pc, dstName,
              srcFile, srcPos, dstFile, result, error, status, g_artefact,
              sigint, eng, hist >>

(***************************************************************************)
(* Bounds                                                                  *)
(***************************************************************************)
MaxWorkers == 2      \* worker counts the setters are called with : 0..MaxWorkers
MaxSrcSize == 3      \* sizes of a source, in bytes : 0..MaxSrcSize

(***************************************************************************)
(* Process                                                                 *)
(***************************************************************************)
Running == [st |-> "running", code |-> 0]
Returned(c) == [st |-> "returned", code |-> c]
\* EXM_THROW : print and exit(error)
EXM_THROW(c) == [st |-> "exited", code |-> c]
\* SIGINT with the default disposition
Killed == [st |-> "killed", code |-> 0]

(***************************************************************************)
(* Preferences                                                             *)
(***************************************************************************)
ZSTD_SPARSE_DEFAULT == 1

\* The fields FIO_createPreferences does not write keep what malloc returned: they
\* are listed in `indeterminate' until a setter writes them, and the value kept here
\* for them is not what a read gives (see ReadField).
FIO_createPreferences ==
    [ overwrite         |-> 0,
      sparseFileSupport |-> ZSTD_SPARSE_DEFAULT,
      removeSrcFile     |-> 0,
      memLimit          |-> 0,
      patchFromMode     |-> 0,
      contentSize       |-> 0,
      useRowMatchFinder |-> 0,
      indeterminate     |-> {"patchFromMode", "contentSize", "useRowMatchFinder"},
      nbWorkers         |-> 1,
      adaptiveMode      |-> 0,
      excludeCompressedFiles |-> 0,
      minAdaptLevel     |-> -50,
      maxAdaptLevel     |-> 22,
      rsyncable         |-> 0,
      streamSrcSize     |-> 0,
      testMode          |-> 0 ]

FIO_overwriteMode ==
    /\ proc.st = "running"
    /\ prefs' = [prefs EXCEPT !.overwrite = 1]
    /\ UNCHANGED << displayLevel, proc, jobVars, sw, cz, dz, ad, nm >>

FIO_setSparseWrite(sparse) ==
    /\ proc.st = "running"
    /\ prefs' = [prefs EXCEPT !.sparseFileSupport = sparse]
    /\ UNCHANGED << displayLevel, proc, jobVars, sw, cz, dz, ad, nm >>

FIO_setRemoveSrcFile(flag) ==
    /\ proc.st = "running"
    /\ prefs' = [prefs EXCEPT !.removeSrcFile = IF flag > 0 THEN 1 ELSE 0]
    /\ UNCHANGED << displayLevel, proc, jobVars, sw, cz, dz, ad, nm >>

FIO_setTestMode(testMode) ==
    /\ proc.st = "running"
    /\ prefs' = [prefs EXCEPT !.testMode = IF testMode # 0 THEN 1 ELSE 0]
    /\ UNCHANGED << displayLevel, proc, jobVars, sw, cz, dz, ad, nm >>

FIO_setNbWorkers(nbWorkers) ==
    /\ proc.st = "running"
    /\ prefs' = [prefs EXCEPT !.nbWorkers = nbWorkers]
    /\ UNCHANGED << displayLevel, proc, jobVars, sw, cz, dz, ad, nm >>

FIO_setAdaptiveMode(adapt) ==
    /\ proc.st = "running"
    /\ IF adapt > 0 /\ prefs.nbWorkers = 0
         THEN /\ proc' = EXM_THROW(1)
              /\ UNCHANGED prefs
         ELSE /\ prefs' = [prefs EXCEPT !.adaptiveMode = adapt]
              /\ UNCHANGED proc
    /\ UNCHANGED << displayLevel, jobVars, sw, cz, dz, ad, nm >>

FIO_setRsyncable(rsyncable) ==
    /\ proc.st = "running"
    /\ IF rsyncable > 0 /\ prefs.nbWorkers = 0
         THEN /\ proc' = EXM_THROW(1)
              /\ UNCHANGED prefs
         ELSE /\ prefs' = [prefs EXCEPT !.rsyncable = rsyncable]
              /\ UNCHANGED proc
    /\ UNCHANGED << displayLevel, jobVars, sw, cz, dz, ad, nm >>

FIO_setStreamSrcSize(streamSrcSize) ==
    /\ proc.st = "running"
    /\ prefs' = [prefs EXCEPT !.streamSrcSize = streamSrcSize]
    /\ UNCHANGED << displayLevel, proc, jobVars, sw, cz, dz, ad, nm >>

FIO_setMemLimit(memLimit) ==
    /\ proc.st = "running"
    /\ prefs' = [prefs EXCEPT !.memLimit = memLimit]
    /\ UNCHANGED << displayLevel, proc, jobVars, sw, cz, dz, ad, nm >>

FIO_setUseRowMatchFinder(useRowMatchFinder) ==
    /\ proc.st = "running"
    /\ prefs' = [prefs EXCEPT !.useRowMatchFinder = useRowMatchFinder,
                              !.indeterminate = @ \ {"useRowMatchFinder"}]
    /\ UNCHANGED << displayLevel, proc, jobVars, sw, cz, dz, ad, nm >>

FIO_setPatchFromMode(value) ==
    /\ proc.st = "running"
    /\ prefs' = [prefs EXCEPT !.patchFromMode = IF value # 0 THEN 1 ELSE 0,
                              !.indeterminate = @ \ {"patchFromMode"}]
    /\ UNCHANGED << displayLevel, proc, jobVars, sw, cz, dz, ad, nm >>

FIO_setContentSize(value) ==
    /\ proc.st = "running"
    /\ prefs' = [prefs EXCEPT !.contentSize = IF value # 0 THEN 1 ELSE 0,
                              !.indeterminate = @ \ {"contentSize"}]
    /\ UNCHANGED << displayLevel, proc, jobVars, sw, cz, dz, ad, nm >>


(***************************************************************************)
(* File names, file system, file contents                                  *)
(***************************************************************************)
NFiles == 2          \* number of input names of a batch

NoName == << "NULL", 0 >>
stdinmark == << "stdin", 0 >>
stdoutmark == << "stdout", 0 >>
nulmark == << "nul", 0 >>
InName(i) == << "f", i >>       \* the i-th input file
DerivedName(i) == << "d", i >>  \* the destination name derived from InName(i)
ExplicitName == << "o", 0 >>    \* a destination name given by the user

FileNames == { InName(i) : i \in 1..NFiles } \cup { DerivedName(i) : i \in 1..NFiles }
                 \cup { ExplicitName }
Names == FileNames \cup { stdinmark, stdoutmark, nulmark }

NoFile == [name |-> NoName, own |-> FALSE, linked |-> FALSE]

Token(t, id, k) == [t |-> t, id |-> id, k |-> k]

\* contents an input file can have
Content(profile, i) ==
    CASE profile = "good"  -> << Token("frame", i, 1), Token("frame", i, 2) >>
      [] profile = "trunc" -> << Token("frame", i, 1), Token("trunc", i, 2) >>
      [] profile = "junk"  -> << Token("junk", i, 1) >>
      [] OTHER             -> << >>

UTIL_isRegularFile(f, n) == f[n] = "regular"
UTIL_isDirectory(f, n) == f[n] = "dir"
\* same device and inode; both names must stat
UTIL_isSameFile(f, a, b) == a = b /\ f[a] \in {"regular", "dir", "chardev"}

\* FIO_removeFile : unlink a regular file, nothing otherwise
CanRemove(f, n) == n \in FileNames /\ f[n] = "regular"
Unlink(f, n) == [f EXCEPT ![n] = "absent"]
Erase(d, n) == [d EXCEPT ![n] = << >>]

(***************************************************************************)
(* FIO_openDstFile : the set of outcomes of one call.                      *)
(* An outcome is the handle returned (NoFile for NULL), the file system    *)
(* and preferences it leaves, and the names it unlinked.                   *)
(***************************************************************************)
DstOutcome(h, f, d, sparse, unl) ==
    [h |-> h, fs |-> f, data |-> d, sparse |-> sparse, unl |-> unl, yes |-> {}]

\* UTIL_requireUserConfirmation : 0 when the user confirms, 1 when the user
\* does not, or cannot be asked
UTIL_requireUserConfirmation == {0, 1}

\* a mutation : an existing destination is overwritten without asking
OverwriteWithoutAsking(overwrite, level) == "overwrite"

\* FIO_openDstFile, the destination exists : overwrite, ask, or give up
OverwriteDecision(overwrite, level) ==
    IF overwrite = 0
      THEN IF level <= 1 THEN "refuse" ELSE "ask"
      ELSE "overwrite"

\* a mutation : any sparse mode is disabled on stdout
SparseOffOnStdout(sparse) == 0

\* if (prefs->sparseFileSupport == 1) prefs->sparseFileSupport = 0;
SparseOnStdout(sparse) == IF sparse = 1 THEN 0 ELSE sparse

\* if (prefs->sparseFileSupport == 1) prefs->sparseFileSupport = ZSTD_SPARSE_DEFAULT;
SparseOnFile(sparse) == IF sparse = 1 THEN ZSTD_SPARSE_DEFAULT ELSE sparse

\* open(dstFileName, O_WRONLY|O_CREAT|O_TRUNC) : may fail
OpenTrunc(n, f, d, unl, own) ==
    IF f[n] \in {"chardev"}
      THEN { DstOutcome([name |-> n, own |-> own, linked |-> TRUE], f, d,
                        SparseOnFile(prefs.sparseFileSupport), unl) }
      ELSE { DstOutcome([name |-> n, own |-> own, linked |-> TRUE],
                        [f EXCEPT ![n] = "regular"], Erase(d, n),
                        SparseOnFile(prefs.sparseFileSupport), unl),
             DstOutcome(NoFile, f, d, SparseOnFile(prefs.sparseFileSupport), unl) }

SameFileCheck(srcFileName, dstFileName) ==
    srcFileName # NoName /\ UTIL_isSameFile(fs, srcFileName, dstFileName)

FIO_openDstFile(srcFileName, dstFileName, own) ==
    LET refused == { DstOutcome(NoFile, fs, data, prefs.sparseFileSupport, {}) }
        kept    == { DstOutcome(NoFile, fs, data, SparseOnFile(prefs.sparseFileSupport), {}) }
    IN
    IF prefs.testMode # 0 THEN refused
    ELSE IF dstFileName = stdoutmark
      THEN { DstOutcome([name |-> stdoutmark, own |-> own, linked |-> TRUE], fs, data,
                        SparseOnStdout(prefs.sparseFileSupport), {}) }
    ELSE IF SameFileCheck(srcFileName, dstFileName) THEN refused
    ELSE IF UTIL_isRegularFile(fs, dstFileName)
      THEN LET overwritten ==
                   OpenTrunc(dstFileName, Unlink(fs, dstFileName),
                             Erase(data, dstFileName), {dstFileName}, own)
               decision == OverwriteDecision(prefs.overwrite, displayLevel)
           IN  IF decision = "refuse" THEN kept
               ELSE IF decision = "ask"
                 THEN UNION { IF a # 0
                                THEN kept
                                ELSE { [o EXCEPT !.yes = {dstFileName}] : o \in overwritten } :
                              a \in UTIL_requireUserConfirmation }
                 ELSE overwritten
      ELSE OpenTrunc(dstFileName, fs, data, {}, own)

(***************************************************************************)
(* Signal guard                                                            *)
(***************************************************************************)
addHandler(dstFileName) ==
    IF UTIL_isRegularFile(fs, dstFileName)
      THEN /\ g_artefact' = dstFileName
           /\ sigint' = "INThandler"
      ELSE /\ g_artefact' = NoName
           /\ UNCHANGED sigint

clearHandler ==
    /\ sigint' = IF g_artefact # NoName THEN "DFL" ELSE sigint
    /\ g_artefact' = NoName


(***************************************************************************)
(* Job orchestrator : initial states                                       *)
(***************************************************************************)
Profiles(o, i) ==
    (IF o = "compress" THEN {"plain", "dir"}
                       ELSE {"good", "trunc", "junk", "empty", "dir"})
      \cup (IF i = 1 THEN {"stdin"} ELSE {})

OutChoices(m, n) ==
    CASE m = "single"  -> { InName(1), ExplicitName, stdoutmark, nulmark }
      [] m = "oneout"  -> { InName(i) : i \in 1..n } \cup { ExplicitName, stdoutmark }
      [] OTHER         -> { NoName }

StdinContent(o) == IF o = "compress" THEN Content("plain", 1) ELSE Content("good", 1)

InitFs(n, prof, pre) ==
    [ x \in Names |->
        IF x \in { stdinmark, stdoutmark } THEN "stream"
        ELSE IF x = nulmark THEN "chardev"
        ELSE IF \E i \in 1..n : x = InName(i)
          THEN LET i == CHOOSE j \in 1..n : x = InName(j)
               IN  CASE prof[i] = "dir"   -> "dir"
                     [] prof[i] = "stdin" -> "absent"
                     [] OTHER             -> "regular"
        ELSE IF x \in { InName(i) : i \in 1..NFiles } THEN "absent"
        ELSE IF pre THEN "regular" ELSE "absent" ]

InitData(o, n, prof, pre) ==
    [ x \in Names |->
        IF x = stdinmark THEN StdinContent(o)
        ELSE IF \E i \in 1..n : x = InName(i)
          THEN LET i == CHOOSE j \in 1..n : x = InName(j)
               IN  IF prof[i] \in {"dir", "stdin"} THEN << >>
                   ELSE IF o = "compress" THEN << Token("plain", i, 1) >>
                   ELSE Content(prof[i], i)
        ELSE IF x \in FileNames /\ x \notin { InName(i) : i \in 1..NFiles } /\ pre
          THEN << Token("old", 0, 0) >>
        ELSE << >> ]

NoIntr == [happened |-> FALSE, dst |-> NoName, src |-> NoName, handled |-> FALSE]

InitHist(f, d) ==
    [ fs0        |-> f,          \* the file system before the run
      data0      |-> d,
      unlinked   |-> {},         \* names removed by remove()
      visited    |-> << >>,      \* inputs reached by the batch loop, in order
      attempted  |-> << >>,      \* inputs handed to a per-file run, in order
      underived  |-> {},         \* inputs whose destination name could not be derived
      rejected   |-> FALSE,      \* FIO_removeMultiFilesWarning said abort
      dstFailed  |-> FALSE,      \* the single explicit destination could not be opened
      dstLog     |-> << >>,      \* tokens written through the current dst handle
      thrown     |-> {},         \* inputs whose engine ended in EXM_THROW
      truncated  |-> {},         \* inputs whose decoding met a truncated frame
      rmOk       |-> {},         \* inputs unlinked by the remove-source step
      kept       |-> {},         \* artefacts whose remove() failed
      srcOpened  |-> {},         \* inputs whose source was opened by FIO_openSrcFile
      opens      |-> {},         \* calls of FIO_openDstFile on a name : what it found
      confirmed  |-> {},         \* destinations the user agreed to overwrite
      asked      |-> FALSE,      \* FIO_removeMultiFilesWarning asked the user
      prefsAtOpen |-> FIO_createPreferences,   \* the preferences before the last lone call of FIO_openDstFile
      intr       |-> NoIntr ]    \* what SIGINT found

IdleJob ==
    /\ op = "none" /\ mode = "none" /\ srcNames = << >> /\ outFileName = NoName
    /\ fs = [x \in Names |-> "absent"] /\ data = [x \in Names |-> << >>]
    /\ fCtx = [currFileIdx |-> 0, nbFilesTotal |-> 1, nbFilesProcessed |-> 0,
               hasStdoutOutput |-> 0]
    /\ pc = "idle" /\ dstName = NoName /\ srcFile = NoName /\ srcPos = 0
    /\ dstFile = NoFile /\ result = 0 /\ error = 0 /\ status = << >>
    /\ g_artefact = NoName /\ sigint = "DFL" /\ eng = 0
    /\ hist = InitHist([x \in Names |-> "absent"], [x \in Names |-> << >>])

IdleSw == sw = [on |-> FALSE]
IdleCz == cz = [on |-> FALSE]
IdleDz == dz = [on |-> FALSE]
IdleAd == ad = [on |-> FALSE]
IdleNm == nm = [on |-> FALSE]

\* a job of one of the operations ops, with excludeCompressedFiles drawn from excl;
\* nm.compressed : the inputs whose name ends in a compressed extension (none when
\* the preference is never set)
JobInitWith(ops, excl) ==
    \E o \in ops, m \in {"single", "perfile", "oneout"},
       ow \in 0..1, rm \in 0..1, dl \in 1..2, pre \in BOOLEAN, xc \in excl :
      LET n == IF m = "single" THEN 1 ELSE NFiles IN
      \E out \in OutChoices(m, n) :
      \E prof \in { q \in [1..n -> UNION { Profiles(o, i) : i \in 1..n }] :
                       \A i \in 1..n : q[i] \in Profiles(o, i) } :
      \E cset \in (IF excl = {0} THEN { {} }
                   ELSE SUBSET { i \in 1..n : prof[i] # "stdin" }) :
        /\ prefs = [FIO_createPreferences EXCEPT !.overwrite = ow, !.removeSrcFile = rm,
                                                 !.excludeCompressedFiles = xc]
        /\ displayLevel = dl
        /\ proc = Running
        /\ op = o /\ mode = m
        /\ srcNames = [i \in 1..n |-> IF prof[i] = "stdin" THEN stdinmark ELSE InName(i)]
        /\ outFileName = out
        /\ fs = InitFs(n, prof, pre)
        /\ data = InitData(o, n, prof, pre)
        /\ fCtx = [currFileIdx |-> 0, nbFilesTotal |-> n, nbFilesProcessed |-> 0,
                   hasStdoutOutput |-> IF out = stdoutmark THEN 1 ELSE 0]
        /\ pc = "start" /\ dstName = NoName /\ srcFile = NoName /\ srcPos = 0
        /\ dstFile = NoFile /\ result = 0 /\ error = 0
        /\ status = << >>
        /\ g_artefact = NoName /\ sigint = "DFL" /\ eng = 0
        /\ hist = InitHist(InitFs(n, prof, pre), InitData(o, n, prof, pre))
        /\ IdleSw /\ IdleCz /\ IdleDz /\ IdleAd
        /\ nm = [on |-> FALSE, compressed |-> cset]

JobInit == JobInitWith({"compress", "decompress"}, {0})

\* history : a call of FIO_openDstFile for input i (0 : for the whole batch)
OpenOf(i, n) == [by |-> i, name |-> n, kind |-> fs[n], content |-> data[n]]

\* a mutation : the batch loop walks the table backwards
CurReversed == fCtx.nbFilesTotal - fCtx.currFileIdx

\* the input the loop is at (currFileIdx counts from 0)
Cur == fCtx.currFileIdx + 1
srcFileName == srcNames[Cur]
\* a mutation : error = status
BitOrLast(a, b) == b

\* error |= status
BitOr(a, b) == IF a # 0 \/ b # 0 THEN 1 ELSE 0

\* fwrite through a destination handle
Write(h, toks, d) ==
    IF h.linked /\ fs[h.name] \in {"regular", "stream"}
      THEN [d EXCEPT ![h.name] = @ \o toks]
      ELSE d


(***************************************************************************)
(* Job orchestrator : batch level                                          *)
(***************************************************************************)
idle == << sw, cz, dz, ad, nm >>

\* a result of FIO_removeMultiFilesWarning
WarningResult(e, asked) == [error |-> e, asked |-> asked]

\* a mutation : the batch never stops at the warning
FIO_removeMultiFilesNoWarning(displayLevelCutoff) == { WarningResult(0, FALSE) }

\* the results of FIO_removeMultiFilesWarning : its return value, and whether the
\* user was asked
FIO_removeMultiFilesWarning(displayLevelCutoff) ==
    IF fCtx.nbFilesTotal > 1 /\ prefs.overwrite = 0
      THEN IF displayLevel <= displayLevelCutoff
             THEN IF prefs.removeSrcFile # 0 THEN { WarningResult(1, FALSE) }
                                             ELSE { WarningResult(0, FALSE) }
             ELSE IF prefs.removeSrcFile # 0
                    THEN IF fCtx.hasStdoutOutput # 0 THEN { WarningResult(1, FALSE) }
                         ELSE { WarningResult(a, TRUE) : a \in UTIL_requireUserConfirmation }
                    ELSE { WarningResult(0, FALSE) }
      ELSE { WarningResult(0, FALSE) }

\* FIO_compressFilename / FIO_decompressFilename : one source, one destination
SingleStart ==
    /\ proc.st = "running" /\ pc = "start" /\ mode = "single"
    /\ dstName' = outFileName
    /\ hist' = [hist EXCEPT !.visited = Append(@, Cur), !.attempted = Append(@, Cur)]
    /\ pc' = "src_begin"
    /\ UNCHANGED << prefs, displayLevel, proc, op, mode, srcNames, outFileName, fs, data,
                    fCtx, srcFile, srcPos, dstFile, result, error, status,
                    g_artefact, sigint, eng, idle >>

\* FIO_compressMultipleFilenames / FIO_decompressMultipleFilenames, outFileName == NULL
PerFileStart ==
    /\ proc.st = "running" /\ pc = "start" /\ mode = "perfile"
    /\ pc' = "loop"
    /\ UNCHANGED << prefs, displayLevel, proc, op, mode, srcNames, outFileName, fs, data,
                    fCtx, dstName, srcFile, srcPos, dstFile, result, error, status,
                    g_artefact, sigint, eng, hist, idle >>

\* ... outFileName != NULL : the multi-files warning
OneOutWarning ==
    /\ proc.st = "running" /\ pc = "start" /\ mode = "oneout"
    /\ \E w \in FIO_removeMultiFilesWarning(1) :
         IF w.error # 0
           THEN /\ proc' = Returned(1)
                /\ pc' = "done"
                /\ hist' = [hist EXCEPT !.rejected = TRUE, !.asked = w.asked]
           ELSE /\ pc' = "open_out"
                /\ hist' = [hist EXCEPT !.asked = w.asked]
                /\ UNCHANGED proc
    /\ UNCHANGED << prefs, displayLevel, op, mode, srcNames, outFileName, fs, data,
                    fCtx, dstName, srcFile, srcPos, dstFile, result, error, status,
                    g_artefact, sigint, eng, idle >>

\* ... ress.dstFile = FIO_openDstFile(fCtx, prefs, NULL, outFileName, ...)
OneOutOpen ==
    /\ proc.st = "running" /\ pc = "open_out"
    /\ IF op = "decompress" /\ prefs.testMode # 0
         THEN /\ pc' = "loop"
              /\ UNCHANGED << prefs, proc, fs, data, dstFile, error, hist >>
         ELSE \E o \in FIO_openDstFile(NoName, outFileName, FALSE) :
                /\ fs' = o.fs /\ data' = o.data
                /\ prefs' = [prefs EXCEPT !.sparseFileSupport = o.sparse]
                /\ dstFile' = o.h
                /\ IF o.h = NoFile
                     THEN /\ hist' = [hist EXCEPT !.dstFailed = TRUE,
                                                  !.unlinked = @ \cup o.unl,
                                                  !.opens = @ \cup {OpenOf(0, outFileName)},
                                                  !.confirmed = @ \cup o.yes]
                          /\ IF op = "compress"
                               THEN /\ error' = 1
                                    /\ pc' = "ret"
                                    /\ UNCHANGED proc
                               ELSE /\ proc' = EXM_THROW(19)
                                    /\ pc' = "done"
                                    /\ UNCHANGED error
                     ELSE /\ hist' = [hist EXCEPT !.unlinked = @ \cup o.unl,
                                                  !.opens = @ \cup {OpenOf(0, outFileName)},
                                                  !.confirmed = @ \cup o.yes,
                                                  !.dstLog = << >>]
                          /\ pc' = "loop"
                          /\ UNCHANGED << proc, error >>
    /\ UNCHANGED << displayLevel, op, mode, srcNames, outFileName, fCtx, dstName,
                    srcFile, srcPos, result, status, g_artefact, sigint, eng, idle >>

\* for (; currFileIdx < nbFilesTotal; ++currFileIdx) : start the per-file run
LoopNext ==
    /\ proc.st = "running" /\ pc = "loop"
    /\ fCtx.currFileIdx < fCtx.nbFilesTotal
    /\ dstName' = IF mode = "oneout" THEN outFileName ELSE DerivedName(Cur)
    /\ hist' = [hist EXCEPT !.visited = Append(@, Cur), !.attempted = Append(@, Cur)]
    /\ pc' = "src_begin"
    /\ UNCHANGED << prefs, displayLevel, proc, op, mode, srcNames, outFileName, fs, data,
                    fCtx, srcFile, srcPos, dstFile, result, error, status,
                    g_artefact, sigint, eng, idle >>

\* ... the destination name cannot be derived : error = 1; continue
\* (FIO_determineDstName returns NULL, or the mirrored directory name is invalid)
LoopSkip ==
    /\ proc.st = "running" /\ pc = "loop" /\ mode = "perfile"
    /\ fCtx.currFileIdx < fCtx.nbFilesTotal
    /\ error' = 1
    /\ fCtx' = [fCtx EXCEPT !.currFileIdx = @ + 1]
    /\ hist' = [hist EXCEPT !.visited = Append(@, Cur), !.underived = @ \cup {Cur}]
    /\ UNCHANGED << prefs, displayLevel, proc, op, mode, srcNames, outFileName, fs, data,
                    pc, dstName, srcFile, srcPos, dstFile, result, status,
                    g_artefact, sigint, eng, idle >>

LoopExit ==
    /\ proc.st = "running" /\ pc = "loop"
    /\ ~ (fCtx.currFileIdx < fCtx.nbFilesTotal)
    /\ pc' = IF mode = "oneout" THEN "close_out" ELSE "ret"
    /\ UNCHANGED << prefs, displayLevel, proc, op, mode, srcNames, outFileName, fs, data,
                    fCtx, dstName, srcFile, srcPos, dstFile, result, error, status,
                    g_artefact, sigint, eng, hist, idle >>

\* if (fclose(ress.dstFile)) EXM_THROW(29 / 72)
OneOutClose ==
    /\ proc.st = "running" /\ pc = "close_out"
    /\ IF op = "decompress" /\ prefs.testMode # 0
         THEN /\ pc' = "ret" /\ UNCHANGED << proc, dstFile >>
         ELSE \/ /\ dstFile' = NoFile
                 /\ pc' = "ret"
                 /\ UNCHANGED proc
              \/ /\ proc' = EXM_THROW(IF op = "compress" THEN 29 ELSE 72)
                 /\ pc' = "done"
                 /\ UNCHANGED dstFile
    /\ UNCHANGED << prefs, displayLevel, op, mode, srcNames, outFileName, fs, data,
                    fCtx, dstName, srcFile, srcPos, result, error, status,
                    g_artefact, sigint, eng, hist, idle >>

\* return error
BatchReturn ==
    /\ proc.st = "running" /\ pc = "ret"
    /\ proc' = Returned(error)
    /\ pc' = "done"
    /\ UNCHANGED << prefs, displayLevel, op, mode, srcNames, outFileName, fs, data,
                    fCtx, dstName, srcFile, srcPos, dstFile, result, error, status,
                    g_artefact, sigint, eng, hist, idle >>


(***************************************************************************)
(* Job orchestrator : the per-file run                                     *)
(* FIO_compressFilename_srcFile / _dstFile, FIO_decompressSrcFile / DstFile *)
(***************************************************************************)
\* FIO_openSrcFile : can the source be opened at all
SrcOpenable(n) == n = stdinmark \/ fs[n] = "regular"

\* UTIL_isCompressedFile(srcFileName, compressedFileExtensions), for input i
UTIL_isCompressedFile(i) == i \in nm.compressed

\* a mutation : the exclusion of compressed files is never applied
ExcludedNever(i) == FALSE

\* if (prefs->excludeCompressedFiles == 1 && UTIL_isCompressedFile(...)) return 0;
Excluded(i) ==
    op = "compress" /\ prefs.excludeCompressedFiles = 1 /\ UTIL_isCompressedFile(i)

\* directory check, exclusion of compressed files, then FIO_openSrcFile
SrcBegin ==
    /\ proc.st = "running" /\ pc = "src_begin"
    /\ eng' = 0 /\ srcPos' = 0
    /\ \/ /\ UTIL_isDirectory(fs, srcFileName)
          /\ result' = 1
          /\ pc' = "file_ret"
          /\ UNCHANGED << srcFile, hist >>
       \/ /\ ~ UTIL_isDirectory(fs, srcFileName) /\ Excluded(Cur)
          /\ result' = 0
          /\ pc' = "file_ret"
          /\ UNCHANGED << srcFile, hist >>
       \/ /\ ~ UTIL_isDirectory(fs, srcFileName) /\ ~ Excluded(Cur)
          /\ ~ SrcOpenable(srcFileName)
          /\ result' = 1
          /\ pc' = "file_ret"
          /\ UNCHANGED << srcFile, hist >>
       \/ /\ ~ UTIL_isDirectory(fs, srcFileName) /\ ~ Excluded(Cur)
          /\ SrcOpenable(srcFileName)
          /\ \/ /\ srcFile' = srcFileName          \* fopen succeeds
                /\ result' = 0
                /\ pc' = "dst_begin"
                /\ hist' = [hist EXCEPT !.srcOpened = @ \cup {Cur}]
             \/ /\ srcFileName # stdinmark         \* fopen fails
                /\ result' = 1
                /\ pc' = "file_ret"
                /\ UNCHANGED << srcFile, hist >>
    /\ UNCHANGED << prefs, displayLevel, proc, op, mode, srcNames, outFileName, fs, data,
                    fCtx, dstName, dstFile, error, status, g_artefact, sigint, idle >>

\* a mutation : the destination opened by the run is left open and registered
AfterEngineSkipsClose == "src_close"

AfterEngine == IF dstFile.own THEN "clear_handler" ELSE "src_close"

\* if (ress.dstFile == NULL) { ress.dstFile = FIO_openDstFile(...); if NULL return 1; }
DstBegin ==
    /\ proc.st = "running" /\ pc = "dst_begin"
    /\ IF dstFile = NoFile /\ (op = "compress" \/ prefs.testMode = 0)
         THEN \E o \in FIO_openDstFile(srcFileName, dstName, TRUE) :
                /\ fs' = o.fs /\ data' = o.data
                /\ prefs' = [prefs EXCEPT !.sparseFileSupport = o.sparse]
                /\ dstFile' = o.h
                /\ hist' = [hist EXCEPT !.unlinked = @ \cup o.unl,
                                        !.opens = @ \cup {OpenOf(Cur, dstName)},
                                        !.confirmed = @ \cup o.yes,
                                        !.dstLog = IF o.h = NoFile THEN @ ELSE << >>]
                /\ IF o.h = NoFile
                     THEN /\ result' = 1
                          /\ pc' = "src_close"
                     ELSE /\ pc' = "add_handler"
                          /\ UNCHANGED result
         ELSE /\ pc' = "engine"
              /\ UNCHANGED << prefs, fs, data, dstFile, result, hist >>
    /\ UNCHANGED << displayLevel, proc, op, mode, srcNames, outFileName, fCtx, dstName,
                    srcFile, srcPos, error, status, g_artefact, sigint, eng, idle >>

\* addHandler(dstFileName)
AddHandler ==
    /\ proc.st = "running" /\ pc = "add_handler"
    /\ addHandler(dstName)
    /\ pc' = "engine"
    /\ UNCHANGED << prefs, displayLevel, proc, op, mode, srcNames, outFileName, fs, data,
                    fCtx, dstName, srcFile, srcPos, dstFile, result, error, status,
                    eng, hist, idle >>

\* clearHandler() before the destination is closed
ClearHandler ==
    /\ proc.st = "running" /\ pc = "clear_handler"
    /\ clearHandler
    /\ pc' = "dst_close"
    /\ UNCHANGED << prefs, displayLevel, proc, op, mode, srcNames, outFileName, fs, data,
                    fCtx, dstName, srcFile, srcPos, dstFile, result, error, status,
                    eng, hist, idle >>

\* a mutation : the artefact of a failed run is never removed
RemoveDstNever(res) == FALSE

\* if ((result != 0) && strcmp(dstFileName, stdoutmark)) FIO_removeFile(dstFileName)
RemoveDstWanted(res) == res # 0 /\ dstName # stdoutmark

\* fclose(dstFile) : a failure sets result = 1
DstClose ==
    /\ proc.st = "running" /\ pc = "dst_close"
    /\ dstFile' = NoFile
    /\ \E closed \in BOOLEAN :
         /\ result' = IF closed THEN result ELSE 1
         /\ pc' = IF RemoveDstWanted(IF closed THEN result ELSE 1)
                    THEN "dst_remove" ELSE "src_close"
    /\ UNCHANGED << prefs, displayLevel, proc, op, mode, srcNames, outFileName, fs, data,
                    fCtx, dstName, srcFile, srcPos, error, status, g_artefact, sigint,
                    eng, hist, idle >>

\* FIO_removeFile(dstFileName) : remove the artefact of a failed run
DstRemove ==
    /\ proc.st = "running" /\ pc = "dst_remove"
    /\ IF CanRemove(fs, dstName)
         THEN \/ /\ fs' = Unlink(fs, dstName)
                 /\ data' = Erase(data, dstName)
                 /\ hist' = [hist EXCEPT !.unlinked = @ \cup {dstName}]
              \/ /\ hist' = [hist EXCEPT !.kept = @ \cup {dstName}]   \* remove() fails
                 /\ UNCHANGED << fs, data >>
         ELSE UNCHANGED << fs, data, hist >>
    /\ pc' = "src_close"
    /\ UNCHANGED << prefs, displayLevel, proc, op, mode, srcNames, outFileName,
                    fCtx, dstName, srcFile, srcPos, dstFile, result, error, status,
                    g_artefact, sigint, eng, idle >>

\* the three conditions of source removal
RemoveSrcWanted(res) ==
    /\ prefs.removeSrcFile # 0
    /\ res = 0
    /\ srcFileName # stdinmark

\* fclose(srcFile), then decide on the removal of the source
SrcClose ==
    /\ proc.st = "running" /\ pc = "src_close"
    /\ srcFile' = NoName
    /\ \/ /\ pc' = IF RemoveSrcWanted(result) THEN "src_rm" ELSE "file_ret"
          /\ UNCHANGED result
       \/ /\ op = "decompress"            \* fclose(srcFile) fails : return 1
          /\ result' = 1
          /\ pc' = "file_ret"
    /\ UNCHANGED << prefs, displayLevel, proc, op, mode, srcNames, outFileName, fs, data,
                    fCtx, dstName, srcPos, dstFile, error, status, g_artefact, sigint,
                    eng, hist, idle >>

\* clearHandler(); FIO_removeFile(srcFileName)
SrcRemove ==
    /\ proc.st = "running" /\ pc = "src_rm"
    /\ clearHandler
    /\ IF CanRemove(fs, srcFileName)
         THEN \/ /\ fs' = Unlink(fs, srcFileName)
                 /\ data' = Erase(data, srcFileName)
                 /\ dstFile' = IF dstFile.name = srcFileName
                                 THEN [dstFile EXCEPT !.linked = FALSE] ELSE dstFile
                 /\ hist' = [hist EXCEPT !.unlinked = @ \cup {srcFileName},
                                         !.rmOk = @ \cup {Cur}]
                 /\ pc' = "file_ret"
                 /\ UNCHANGED << proc, result >>
              \/ /\ IF op = "compress"      \* remove() fails
                      THEN /\ proc' = EXM_THROW(1)
                           /\ pc' = "done"
                           /\ UNCHANGED result
                      ELSE /\ result' = 1
                           /\ pc' = "file_ret"
                           /\ UNCHANGED proc
                 /\ UNCHANGED << fs, data, dstFile, hist >>
         ELSE /\ pc' = "file_ret"
              /\ UNCHANGED << fs, data, dstFile, hist, proc, result >>
    /\ UNCHANGED << prefs, displayLevel, op, mode, srcNames, outFileName,
                    fCtx, dstName, srcFile, srcPos, error, status, eng, idle >>

\* the per-file run returns : status = result; error |= status
FileReturn ==
    /\ proc.st = "running" /\ pc = "file_ret"
    /\ status' = (Cur :> result) @@ status
    /\ IF mode = "single"
         THEN /\ proc' = Returned(result)
              /\ pc' = "done"
              /\ UNCHANGED << fCtx, error >>
         ELSE /\ fCtx' = [fCtx EXCEPT !.currFileIdx = @ + 1,
                                      !.nbFilesProcessed = IF result = 0 THEN @ + 1 ELSE @]
              /\ error' = BitOr(error, result)
              /\ pc' = "loop"
              /\ UNCHANGED proc
    /\ UNCHANGED << prefs, displayLevel, op, mode, srcNames, outFileName, fs, data,
                    dstName, srcFile, srcPos, dstFile, result, g_artefact, sigint,
                    eng, hist, idle >>


(***************************************************************************)
(* Job orchestrator : the engines, as seen from the orchestrator           *)
(***************************************************************************)
\* error codes of the EXM_THROW calls of the compression loop :
\* codec error (CHECK_V), write error, read error
CompressThrowCodes == {11, 25, 26}

\* FIO_compressZstdFrame : a compressed block reaches the destination
CompressBlock ==
    /\ proc.st = "running" /\ pc = "engine" /\ op = "compress" /\ eng = 0
    /\ data' = Write(dstFile, << Token("cblock", Cur, 1) >>, data)
    /\ hist' = [hist EXCEPT !.dstLog = Append(@, Token("cblock", Cur, 1))]
    /\ eng' = 1
    /\ UNCHANGED << prefs, displayLevel, proc, op, mode, srcNames, outFileName, fs,
                    fCtx, pc, dstName, srcFile, srcPos, dstFile, result, error, status,
                    g_artefact, sigint, idle >>

\* ... the frame is complete; FIO_compressFilename_internal returns 0
CompressEnd ==
    /\ proc.st = "running" /\ pc = "engine" /\ op = "compress" /\ eng = 1
    /\ data' = Write(dstFile, << Token("cend", Cur, 2) >>, data)
    /\ hist' = [hist EXCEPT !.dstLog = Append(@, Token("cend", Cur, 2))]
    /\ eng' = 2
    /\ result' = 0
    /\ pc' = AfterEngine
    /\ UNCHANGED << prefs, displayLevel, proc, op, mode, srcNames, outFileName, fs,
                    fCtx, dstName, srcFile, srcPos, dstFile, error, status,
                    g_artefact, sigint, idle >>

\* ... the codec returns an error, or a read or write fails : EXM_THROW
CompressThrow ==
    /\ proc.st = "running" /\ pc = "engine" /\ op = "compress"
    /\ \E c \in CompressThrowCodes : proc' = EXM_THROW(c)
    /\ hist' = [hist EXCEPT !.thrown = @ \cup {Cur}]
    /\ pc' = "done"
    /\ UNCHANGED << prefs, displayLevel, op, mode, srcNames, outFileName, fs, data,
                    fCtx, dstName, srcFile, srcPos, dstFile, result, error, status,
                    g_artefact, sigint, eng, idle >>

\* what the decoder finds at its read position
SrcTokens == data[srcFile]
AtEof == srcPos >= Len(SrcTokens)
NextToken == SrcTokens[srcPos + 1]
PassThroughAllowed == prefs.overwrite # 0 /\ dstName = stdoutmark

\* FIO_decompressFrames : one complete frame is decoded and written
DecodeFrame ==
    /\ proc.st = "running" /\ pc = "engine" /\ op = "decompress"
    /\ ~ AtEof /\ NextToken.t = "frame"
    /\ LET out == Token("out", NextToken.id, NextToken.k) IN
         /\ data' = IF dstFile = NoFile THEN data ELSE Write(dstFile, << out >>, data)
         /\ hist' = [hist EXCEPT !.dstLog = Append(@, out)]
    /\ srcPos' = srcPos + 1
    /\ UNCHANGED << prefs, displayLevel, proc, op, mode, srcNames, outFileName, fs,
                    fCtx, pc, dstName, srcFile, dstFile, result, error, status,
                    g_artefact, sigint, eng, idle >>

\* ... the input ends inside a frame : the blocks decoded so far are written,
\* then "premature end", return 1
DecodeTruncated ==
    /\ proc.st = "running" /\ pc = "engine" /\ op = "decompress"
    /\ ~ AtEof /\ NextToken.t = "trunc"
    /\ LET out == Token("part", NextToken.id, NextToken.k) IN
         /\ data' = IF dstFile = NoFile THEN data ELSE Write(dstFile, << out >>, data)
         /\ hist' = [hist EXCEPT !.dstLog = Append(@, out),
                                 !.truncated = @ \cup {Cur}]
    /\ result' = 1
    /\ pc' = AfterEngine
    /\ UNCHANGED << prefs, displayLevel, proc, op, mode, srcNames, outFileName, fs,
                    fCtx, dstName, srcFile, srcPos, dstFile, error, status,
                    g_artefact, sigint, eng, idle >>

\* ... end of input : ok if something was read, error on an empty source
DecodeEof ==
    /\ proc.st = "running" /\ pc = "engine" /\ op = "decompress"
    /\ AtEof
    /\ result' = IF srcPos = 0 THEN 1 ELSE 0
    /\ pc' = AfterEngine
    /\ UNCHANGED << prefs, displayLevel, proc, op, mode, srcNames, outFileName, fs, data,
                    fCtx, dstName, srcFile, srcPos, dstFile, error, status,
                    g_artefact, sigint, eng, hist, idle >>

\* ... no known magic number : pass-through, or "unsupported format"
DecodeUnknown ==
    /\ proc.st = "running" /\ pc = "engine" /\ op = "decompress"
    /\ ~ AtEof /\ NextToken.t \notin {"frame", "trunc"}
    /\ IF PassThroughAllowed
         THEN LET rest == SubSeq(SrcTokens, srcPos + 1, Len(SrcTokens)) IN
                /\ data' = IF dstFile = NoFile THEN data ELSE Write(dstFile, rest, data)
                /\ hist' = [hist EXCEPT !.dstLog = @ \o rest]
                /\ srcPos' = Len(SrcTokens)
                /\ result' = 0
         ELSE /\ result' = 1
              /\ UNCHANGED << data, hist, srcPos >>
    /\ pc' = AfterEngine
    /\ UNCHANGED << prefs, displayLevel, proc, op, mode, srcNames, outFileName, fs,
                    fCtx, dstName, srcFile, dstFile, error, status,
                    g_artefact, sigint, eng, idle >>

\* ... FIO_fwriteSparse cannot write a decoded block : EXM_THROW(70)
DecodeThrow ==
    /\ proc.st = "running" /\ pc = "engine" /\ op = "decompress"
    /\ ~ AtEof /\ NextToken.t \in {"frame", "trunc"}
    /\ dstFile # NoFile
    /\ proc' = EXM_THROW(70)
    /\ hist' = [hist EXCEPT !.thrown = @ \cup {Cur}]
    /\ pc' = "done"
    /\ UNCHANGED << prefs, displayLevel, op, mode, srcNames, outFileName, fs, data,
                    fCtx, dstName, srcFile, srcPos, dstFile, result, error, status,
                    g_artefact, sigint, eng, idle >>

(***************************************************************************)
(* SIGINT                                                                  *)
(***************************************************************************)
\* the regular file that is open for writing, if any
OpenRegularDst ==
    IF dstFile # NoFile /\ dstFile.name \in FileNames /\ fs[dstFile.name] = "regular"
      THEN dstFile.name ELSE NoName

CurrentSrc == IF pc \in {"start", "open_out", "loop", "close_out", "ret", "done"}
                THEN NoName ELSE srcFileName

\* INThandler when it is installed, the default disposition otherwise
SIGINT ==
    /\ proc.st = "running" /\ pc \notin {"idle", "done"}
    /\ IF sigint = "INThandler"
         THEN /\ IF g_artefact # NoName
                   THEN /\ fs' = Unlink(fs, g_artefact)
                        /\ data' = Erase(data, g_artefact)
                        /\ hist' = [hist EXCEPT
                                      !.unlinked = @ \cup {g_artefact},
                                      !.intr = [happened |-> TRUE, dst |-> OpenRegularDst,
                                                src |-> CurrentSrc, handled |-> TRUE]]
                   ELSE /\ hist' = [hist EXCEPT
                                      !.intr = [happened |-> TRUE, dst |-> OpenRegularDst,
                                                src |-> CurrentSrc, handled |-> TRUE]]
                        /\ UNCHANGED << fs, data >>
              /\ proc' = EXM_THROW(2)
         ELSE /\ hist' = [hist EXCEPT
                            !.intr = [happened |-> TRUE, dst |-> OpenRegularDst,
                                      src |-> CurrentSrc, handled |-> FALSE]]
              /\ proc' = Killed
              /\ UNCHANGED << fs, data >>
    /\ UNCHANGED << prefs, displayLevel, op, mode, srcNames, outFileName,
                    fCtx, pc, dstName, srcFile, srcPos, dstFile, result, error, status,
                    g_artefact, sigint, eng, idle >>

(***************************************************************************)
(* Specification of the orchestrator                                       *)
(***************************************************************************)
Init == JobInit

Next ==
    \/ SingleStart \/ PerFileStart \/ OneOutWarning \/ OneOutOpen
    \/ LoopNext \/ LoopSkip \/ LoopExit \/ OneOutClose \/ BatchReturn
    \/ SrcBegin \/ DstBegin \/ AddHandler \/ ClearHandler \/ DstClose \/ DstRemove
    \/ SrcClose \/ SrcRemove \/ FileReturn
    \/ CompressBlock \/ CompressEnd \/ CompressThrow
    \/ DecodeFrame \/ DecodeTruncated \/ DecodeEof \/ DecodeUnknown \/ DecodeThrow
    \/ SIGINT

Spec == Init /\ [][Next]_vars


(***************************************************************************)
(* Properties of the orchestrator                                          *)
(***************************************************************************)
Inputs == DOMAIN srcNames
Batch == mode \in {"perfile", "oneout"}
Range(q) == { q[k] : k \in DOMAIN q }

\* the run of input i ended with status 0 (recorded, or about to be recorded)
StatusIs(i, v) == i \in DOMAIN status /\ status[i] = v

RunSucceeded(i) ==
    \/ StatusIs(i, 0)
    \/ i = Cur /\ pc = "file_ret" /\ result = 0 /\ i \notin DOMAIN status

\* the run of input i has returned
RunReturned(i) == i \in DOMAIN status

\* the destination of the run of input i
DstOf(i) == IF mode = "perfile" THEN DerivedName(i) ELSE outFileName

\* C2 : a source file is unlinked only if its run returned 0, remove_src is set
\* and the source is not stdin; in every other case the source still exists.
C2_SourcePreserved ==
    \A i \in Inputs :
      LET removable == prefs.removeSrcFile # 0 /\ RunSucceeded(i)
                          /\ srcNames[i] # stdinmark
      IN  /\ srcNames[i] \in hist.unlinked => removable
          /\ (hist.fs0[srcNames[i]] = "regular" /\ ~ removable)
                => fs[srcNames[i]] = "regular"

\* C3 : when source and destination of a run are the same file, the run returns
\* an error and the file is neither removed, truncated nor written
\* (single-file mode and batch mode with one explicit output).
C3_SelfOverwriteRefused ==
    \A i \in Inputs :
      ( /\ mode \in {"single", "oneout"}
        /\ outFileName = srcNames[i]
        /\ hist.fs0[srcNames[i]] = "regular"
        /\ RunReturned(i) )
      => /\ status[i] = 1
         /\ fs[srcNames[i]] = "regular"
         /\ data[srcNames[i]] = hist.data0[srcNames[i]]
         /\ srcNames[i] \notin hist.unlinked

\* C4 : SIGINT while a regular-file destination is open for writing : the process
\* exits with code 2, the destination no longer exists, the source still exists.
C4_InterruptRemovesDst ==
    (hist.intr.happened /\ hist.intr.dst # NoName)
      => /\ proc = EXM_THROW(2)
         /\ fs[hist.intr.dst] = "absent"
         /\ (hist.intr.src \in FileNames /\ hist.fs0[hist.intr.src] = "regular")
               => fs[hist.intr.src] = "regular"

\* C5 : a codec, read or write error while one file of a batch is compressed
\* aborts that file only : the process goes on, and when the batch returns the
\* artefact is gone, a nonzero status is recorded and every input was visited.
C5_CodecErrorAbortsFileOnly ==
    \A i \in hist.thrown :
      (op = "compress" /\ Batch)
      => /\ proc.st # "exited"
         /\ proc.st = "returned"
              => /\ status[i] = 1
                 /\ Len(hist.visited) = fCtx.nbFilesTotal
                 /\ DstOf(i) \in FileNames => fs[DstOf(i)] = "absent"

\* the decoded output of the complete frames of input i
EarlierOutput(i) ==
    { Token("out", t.id, t.k) : t \in { u \in Range(hist.data0[srcNames[i]]) :
                                          u.t = "frame" } }

TruncatedIntoFile(i) ==
    /\ op = "decompress"
    /\ i \in hist.truncated
    /\ RunReturned(i)
    /\ DstOf(i) \in FileNames

\* C6 (as stated) : a multi-frame input with a truncated last frame, decoded into
\* a regular file : error for that file, and the output of the earlier frames is
\* still in the destination file.
C6_TruncatedKeepsEarlierFrames ==
    \A i \in Inputs :
      TruncatedIntoFile(i)
      => /\ status[i] = 1
         /\ fs[DstOf(i)] = "regular"
         /\ EarlierOutput(i) \subseteq Range(data[DstOf(i)])

\* C6 (amended) : ... error for that file; when the run opened the destination
\* itself (single-file run, one destination per source), the destination file is
\* removed before the run returns, unless remove() fails; the output of the
\* earlier frames stays on disk only in the single explicit output of a batch.
C6_TruncatedAmended ==
    \A i \in Inputs :
      TruncatedIntoFile(i)
      => /\ status[i] = 1
         /\ IF mode = "oneout"
              THEN /\ fs[DstOf(i)] = "regular"
                   /\ EarlierOutput(i) \subseteq Range(data[DstOf(i)])
              ELSE fs[DstOf(i)] = "absent" \/ DstOf(i) \in hist.kept

C6_Witness ==
    \E i \in Inputs :
      /\ TruncatedIntoFile(i) /\ mode = "perfile"
      /\ EarlierOutput(i) # {}
      /\ fs[DstOf(i)] = "absent"

AnyRunFailed == \E i \in DOMAIN status : status[i] # 0
AllRunsOk == \A i \in Inputs : StatusIs(i, 0)

\* C9 (as stated) : a batch returns nonzero iff a per-file run returned nonzero or
\* a destination name could not be derived; 0 exactly when every input has status 0.
C9_BatchReturnIff ==
    (Batch /\ proc.st = "returned")
      => /\ (proc.code # 0) <=> (AnyRunFailed \/ hist.underived # {})
         /\ (proc.code = 0) <=> AllRunsOk

\* C9 (amended) : ... or the batch was rejected by the multi-files warning, or the
\* single explicit output could not be opened.
C9_BatchReturnAmended ==
    (Batch /\ proc.st = "returned")
      => /\ (proc.code # 0) <=> (AnyRunFailed \/ hist.underived # {}
                                   \/ hist.rejected \/ hist.dstFailed)
         /\ (proc.code = 0) <=> AllRunsOk

C9_Witness ==
    /\ Batch /\ proc.st = "returned" /\ proc.code # 0
    /\ StatusIs(1, 1)
    /\ StatusIs(fCtx.nbFilesTotal, 0)

\* the loop of the batch ran to its end
LoopDone == Batch /\ fCtx.currFileIdx = fCtx.nbFilesTotal

\* what the run of input i sends to the destination when it succeeds
ExpectedOutput(i) ==
    IF op = "compress"
      THEN { Token("cblock", i, 1), Token("cend", i, 2) }
      ELSE { IF t.t = "frame" THEN Token("out", t.id, t.k) ELSE t :
               t \in Range(hist.data0[srcNames[i]]) }

\* C10 (as stated) : in a batch every input name is attempted exactly once, in
\* input-name order; with one explicit output the frames of the successful
\* inputs are in the output in input-name order.
C10_EveryInputAttempted ==
    (Batch /\ proc.st = "returned")
      => /\ hist.visited = [k \in 1..fCtx.nbFilesTotal |-> k]
         /\ mode = "oneout" =>
               /\ \A a, b \in 1..Len(hist.dstLog) :
                     a < b => hist.dstLog[a].id <= hist.dstLog[b].id
               /\ \A i \in Inputs :
                     StatusIs(i, 0) => ExpectedOutput(i) \subseteq Range(hist.dstLog)

\* C10 (amended) : the inputs are visited in table order, each at most once,
\* whatever the status of the earlier inputs; a batch that was not refused before
\* its loop (multi-files warning, single explicit output not opened) returns only
\* after the last input was visited; with one explicit output the frames of the
\* successful inputs are in the destination, in table order.
C10_BatchOrder ==
    /\ Batch =>
         /\ hist.visited = [k \in 1..Len(hist.visited) |-> k]
         /\ Len(hist.visited) \in { fCtx.currFileIdx, fCtx.currFileIdx + 1 }
         /\ Len(hist.visited) <= fCtx.nbFilesTotal
         /\ (proc.st = "returned" /\ ~ hist.rejected /\ ~ hist.dstFailed)
               => LoopDone
    /\ (LoopDone /\ mode = "oneout") =>
         /\ \A a, b \in 1..Len(hist.dstLog) :
               a < b => hist.dstLog[a].id <= hist.dstLog[b].id
         /\ \A i \in Inputs :
               StatusIs(i, 0) => ExpectedOutput(i) \subseteq Range(hist.dstLog)
         /\ (dstFile # NoFile /\ dstFile.linked /\ fs[outFileName] = "regular")
               => data[outFileName] = hist.dstLog

C10_Witness ==
    /\ LoopDone /\ mode = "oneout" /\ proc.st = "returned"
    /\ StatusIs(1, 1)
    /\ \A i \in Inputs : i > 1 => StatusIs(i, 0)
    /\ Len(hist.dstLog) > 0

\* C15 : an existing regular destination is unlinked or truncated by the open
\* step only if overwrite is set or the user confirmed; with overwrite unset and
\* display level <= 1 the open fails, the run ends in error and the file is left
\* as it was.
C15_ExistingDstKept ==
    \A r \in hist.opens :
      (r.kind = "regular" /\ r.name # stdoutmark) =>
        /\ (fs[r.name] # "regular" \/ data[r.name] # r.content \/ r.name \in hist.unlinked)
              => (prefs.overwrite # 0 \/ r.name \in hist.confirmed)
        /\ (prefs.overwrite = 0 /\ displayLevel <= 1) =>
              /\ fs[r.name] = "regular" /\ data[r.name] = r.content
              /\ r.name \notin hist.confirmed
              /\ dstFile = NoFile \/ dstFile.name # r.name
              /\ IF r.by = 0
                   THEN /\ hist.dstFailed
                        /\ \/ proc = EXM_THROW(19)
                           \/ (error = 1 /\ (proc.st = "returned" => proc.code = 1))
                   ELSE /\ RunReturned(r.by) => StatusIs(r.by, 1)
                        /\ (Cur = r.by /\ pc \in {"src_close", "src_remove", "file_ret"})
                              => result = 1

C15_Witness ==
    /\ prefs.overwrite = 0 /\ displayLevel <= 1 /\ proc.st = "returned"
    /\ \E r \in hist.opens :
         /\ r.kind = "regular" /\ r.by # 0 /\ Len(r.content) > 0
         /\ StatusIs(r.by, 1)
         /\ data[r.name] = r.content

\* C16 : more than one input, one explicit output, remove_src set, overwrite not
\* set : the batch returns an error before the destination is opened and before
\* any input is processed or removed, unless the user confirmed at the prompt;
\* with stdout as output it aborts without asking.  With overwrite set the batch
\* is never stopped by the warning.
C16_WarningDone == mode = "oneout" /\ fCtx.nbFilesTotal > 1 /\ pc # "start"

C21_HandlesReleased ==
    (proc.st = "running" /\ pc \in {"file_ret", "loop"})
      => /\ srcFile = NoName
         /\ dstFile # NoFile => ~ dstFile.own
         /\ g_artefact = NoName

\* a run that opened its source and its destination returns after a decoding error
C21_Witness ==
    /\ proc.st = "running" /\ pc = "file_ret" /\ mode = "perfile"
    /\ Cur \in hist.truncated /\ Cur \in hist.srcOpened
    /\ \E o \in hist.opens : o.by = Cur

\* C23 : while the regular-file destination opened by a per-file run is open, from
\* its registration on, g_artefact is its name
C23_GuardWhileOpen ==
    (/\ proc.st = "running"
     /\ dstFile # NoFile /\ dstFile.own /\ OpenRegularDst # NoName
     /\ pc # "add_handler")
      => g_artefact = dstFile.name

\* C24 : a step that unlinks a source because of removeSrcFile starts with no
\* destination handle open (the destination that received the output has been
\* closed, and closed without error: result is still 0) and ends with the guard
\* path clear, in per-file runs and in a batch with one explicit output file
C24_RemovedAfterClose ==
    [][ (hist'.rmOk # hist.rmOk)
          => /\ dstFile = NoFile
             /\ result = 0
             /\ g_artefact' = NoName ]_vars

(***************************************************************************)
(* Specification of the preference setters                                 *)
(***************************************************************************)
PrefsInit ==
    /\ prefs = FIO_createPreferences
    /\ displayLevel = 2
    /\ proc = Running
    /\ IdleJob /\ IdleSw /\ IdleCz /\ IdleDz /\ IdleAd /\ IdleNm

PrefsNext ==
    \/ FIO_overwriteMode
    \/ \E sparse \in 0..2 : FIO_setSparseWrite(sparse)
    \/ \E flag \in 0..1 : FIO_setRemoveSrcFile(flag)
    \/ \E testMode \in 0..1 : FIO_setTestMode(testMode)
    \/ \E nbWorkers \in 0..MaxWorkers : FIO_setNbWorkers(nbWorkers)
    \/ \E adapt \in 0..1 : FIO_setAdaptiveMode(adapt)
    \/ \E rsyncable \in 0..1 : FIO_setRsyncable(rsyncable)
    \/ \E streamSrcSize \in 0..MaxSrcSize : FIO_setStreamSrcSize(streamSrcSize)

SpecPrefs == PrefsInit /\ [][PrefsNext]_vars

\* C8 : after any sequence of setter calls that does not abort the process,
\* workers == 0 implies that adaptive mode is off and rsyncable mode is off.
C8_WorkersZeroImpliesOff ==
    (proc.st = "running" /\ prefs.nbWorkers = 0)
      => (prefs.adaptiveMode = 0 /\ prefs.rsyncable = 0)


(***************************************************************************)
(* Sparse writer : FIO_fwriteSparse / FIO_fwriteSparseEnd                  *)
(* Sizes are scaled down; a byte is 0 or 1 (zero or not zero).             *)
(***************************************************************************)
SizeofSizeT == 2     \* bytes in a size_t word
SegmentSizeT == 2    \* words in a segment (32 KB / sizeof(size_t) in the program)
OneGB == 3           \* the "1 GB" threshold of storedSkips
MaxBufLen == 7       \* longest buffer passed to the writer
MaxTotal == 8        \* most bytes passed to the writer in one run

\* unsigned storedSkips : 32 bits hold 4 GB
UIntRange == 4 * OneGB

Bytes == 0..1
RECURSIVE SeqsOfLen(_)
SeqsOfLen(n) ==
    IF n = 0 THEN { << >> }
    ELSE { Append(q, b) : q \in SeqsOfLen(n - 1), b \in Bytes }
Buffers == UNION { SeqsOfLen(n) : n \in 0..MaxBufLen }

Zeros(n) == [k \in 1..n |-> 0]
IsZero(bytes) == \A k \in 1..Len(bytes) : bytes[k] = 0

\* a FILE opened for writing : the bytes on disk and the position.
\* fseek(file, offset, SEEK_CUR) moves the position only
LONG_SEEK(file, offset) ==
    [file EXCEPT !.pos = @ + offset, !.far = IF offset > @ THEN offset ELSE @]

\* fwrite at the position : a gap left by a seek past the end reads back as zeros
fwrite(file, bytes) ==
    LET written == IF file.pos > Len(file.content)
                     THEN file.content \o Zeros(file.pos - Len(file.content))
                     ELSE file.content
    IN  IF Len(bytes) = 0 THEN file
        ELSE [ content |-> SubSeq(written, 1, file.pos) \o bytes
                             \o SubSeq(written, file.pos + Len(bytes) + 1, Len(written)),
               pos     |-> file.pos + Len(bytes),
               far     |-> file.far ]

\* bufferT[k], k counted from 0
WordAt(buffer, k) == SubSeq(buffer, k * SizeofSizeT + 1, (k + 1) * SizeofSizeT)

\* a mutation : every word of a segment is taken for zero
CountZeroWordsAll(buffer, ptrT, seg0SizeT, nb0T) == seg0SizeT

\* for (nb0T=0; (nb0T < seg0SizeT) && (ptrT[nb0T] == 0); nb0T++) ;
RECURSIVE CountZeroWords(_, _, _, _)
CountZeroWords(buffer, ptrT, seg0SizeT, nb0T) ==
    IF nb0T < seg0SizeT /\ IsZero(WordAt(buffer, ptrT + nb0T))
      THEN CountZeroWords(buffer, ptrT, seg0SizeT, nb0T + 1)
      ELSE nb0T

\* while (ptrT < bufferTEnd) { ... } : ptrT and bufferTEnd count words
RECURSIVE SegmentLoop(_, _, _, _, _, _)
SegmentLoop(file, buffer, ptrT, bufferTEnd, bufferSizeT, storedSkips) ==
    IF ~ (ptrT < bufferTEnd)
      THEN [file |-> file, storedSkips |-> storedSkips]
      ELSE LET seg0SizeT == IF SegmentSizeT > bufferSizeT THEN bufferSizeT
                                                          ELSE SegmentSizeT
               nb0T      == CountZeroWords(buffer, ptrT, seg0SizeT, 0)
               skips     == (storedSkips + nb0T * SizeofSizeT) % UIntRange
           IN  IF nb0T # seg0SizeT
                 THEN SegmentLoop(
                        fwrite(LONG_SEEK(file, skips),
                               SubSeq(buffer, (ptrT + nb0T) * SizeofSizeT + 1,
                                              (ptrT + seg0SizeT) * SizeofSizeT)),
                        buffer, ptrT + seg0SizeT, bufferTEnd,
                        bufferSizeT - seg0SizeT, 0)
                 ELSE SegmentLoop(file, buffer, ptrT + seg0SizeT, bufferTEnd,
                                  bufferSizeT - seg0SizeT, skips)

\* for ( ; (restPtr < restEnd) && (*restPtr == 0); restPtr++) ; offsets in bytes
RECURSIVE CountZeroBytes(_, _, _)
CountZeroBytes(buffer, restPtr, restEnd) ==
    IF restPtr < restEnd /\ buffer[restPtr + 1] = 0
      THEN CountZeroBytes(buffer, restPtr + 1, restEnd)
      ELSE restPtr

\* if (bufferSize & maskT) { ... } : the bytes after the last whole word
RestBytes(s, buffer) ==
    LET bufferSize == Len(buffer)
        restStart  == (bufferSize \div SizeofSizeT) * SizeofSizeT
        restEnd    == bufferSize
        restPtr    == CountZeroBytes(buffer, restStart, restEnd)
        skips      == (s.storedSkips + (restPtr - restStart)) % UIntRange
    IN  IF bufferSize % SizeofSizeT # 0
          THEN IF restPtr # restEnd
                 THEN [ file |-> fwrite(LONG_SEEK(s.file, skips),
                                        SubSeq(buffer, restPtr + 1, restEnd)),
                        storedSkips |-> 0 ]
                 ELSE [ file |-> s.file, storedSkips |-> skips ]
          ELSE s

\* a mutation : the normal write of a disabled sparse mode is missing
FIO_fwriteSparseAlways(file, buffer, storedSkips) ==
    IF prefs.testMode # 0
      THEN [file |-> file, storedSkips |-> 0]
    ELSE LET bufferSizeT == Len(buffer) \div SizeofSizeT
             file1   == IF storedSkips > OneGB THEN LONG_SEEK(file, OneGB) ELSE file
             skips1  == IF storedSkips > OneGB THEN storedSkips - OneGB ELSE storedSkips
         IN  RestBytes(SegmentLoop(file1, buffer, 0, bufferSizeT, bufferSizeT, skips1),
                       buffer)

\* a mutation : the 1 GB seek leaves storedSkips as it was
FIO_fwriteSparseKeepsSkips(file, buffer, storedSkips) ==
    IF prefs.testMode # 0
      THEN [file |-> file, storedSkips |-> 0]
    ELSE IF prefs.sparseFileSupport = 0
      THEN [file |-> fwrite(file, buffer), storedSkips |-> 0]
    ELSE LET bufferSizeT == Len(buffer) \div SizeofSizeT
             file1   == IF storedSkips > OneGB THEN LONG_SEEK(file, OneGB) ELSE file
         IN  RestBytes(SegmentLoop(file1, buffer, 0, bufferSizeT, bufferSizeT, storedSkips),
                       buffer)

\* the file and the storedSkips a successful call leaves
FIO_fwriteSparse(file, buffer, storedSkips) ==
    IF prefs.testMode # 0
      THEN [file |-> file, storedSkips |-> 0]
    ELSE IF prefs.sparseFileSupport = 0
      THEN [file |-> fwrite(file, buffer), storedSkips |-> 0]
    ELSE LET bufferSizeT == Len(buffer) \div SizeofSizeT
             file1   == IF storedSkips > OneGB THEN LONG_SEEK(file, OneGB) ELSE file
             skips1  == IF storedSkips > OneGB THEN storedSkips - OneGB ELSE storedSkips
         IN  RestBytes(SegmentLoop(file1, buffer, 0, bufferSizeT, bufferSizeT, skips1),
                       buffer)

\* a mutation : the final skip is a seek only, the last zero is not written
FIO_fwriteSparseEndSeekOnly(file, storedSkips) ==
    IF storedSkips > 0 THEN LONG_SEEK(file, storedSkips) ELSE file

\* the file a successful call leaves
FIO_fwriteSparseEnd(file, storedSkips) ==
    IF storedSkips > 0
      THEN fwrite(LONG_SEEK(file, storedSkips - 1), << 0 >>)
      ELSE file

\* error codes of the EXM_THROW calls a failed seek or write of FIO_fwriteSparse leads to
SparseThrowCodes ==
    IF prefs.sparseFileSupport = 0 THEN {70}
    ELSE (IF sw.storedSkips > OneGB THEN {91} ELSE {}) \cup {92, 93, 95}

SparseInit ==
    /\ \E sparse \in 0..2, testMode \in 0..1 :
         prefs = [FIO_createPreferences EXCEPT !.sparseFileSupport = sparse,
                                               !.testMode = testMode]
    /\ displayLevel = 2
    /\ proc = Running
    /\ IdleJob /\ IdleCz /\ IdleDz /\ IdleAd /\ IdleNm
    /\ sw = [ on          |-> TRUE,
              file        |-> [content |-> << >>, pos |-> 0,
                              far |-> 0],   \* far : history, the largest seek offset
              storedSkips |-> 0,
              passed      |-> << >>,     \* history : every byte passed so far
              last        |-> 0,         \* history : size of the last buffer
              ended       |-> FALSE ]    \* history : the finalizer was the last call

\* storedSkips = FIO_fwriteSparse(dstFile, buffer, bufferSize, prefs, storedSkips)
SparseWrite ==
    /\ proc.st = "running" /\ sw.on
    /\ \E buffer \in Buffers :
         /\ Len(sw.passed) + Len(buffer) <= MaxTotal
         /\ LET r == FIO_fwriteSparse(sw.file, buffer, sw.storedSkips) IN
              sw' = [sw EXCEPT !.file = r.file, !.storedSkips = r.storedSkips,
                               !.passed = @ \o buffer, !.last = Len(buffer),
                               !.ended = FALSE]
    /\ UNCHANGED << prefs, displayLevel, proc, jobVars, cz, dz, ad, nm >>

\* ... a seek or a write of it fails
SparseWriteThrow ==
    /\ proc.st = "running" /\ sw.on /\ prefs.testMode = 0
    /\ \E c \in SparseThrowCodes : proc' = EXM_THROW(c)
    /\ UNCHANGED << prefs, displayLevel, jobVars, sw, cz, dz, ad, nm >>

\* FIO_fwriteSparseEnd(prefs, dstFile, storedSkips), at the end of a frame
SparseEnd ==
    /\ proc.st = "running" /\ sw.on
    /\ sw' = [sw EXCEPT !.file = FIO_fwriteSparseEnd(sw.file, sw.storedSkips),
                        !.storedSkips = 0, !.ended = TRUE]
    /\ UNCHANGED << prefs, displayLevel, proc, jobVars, cz, dz, ad, nm >>

\* ... the final seek or the write of the last zero fails
SparseEndThrow ==
    /\ proc.st = "running" /\ sw.on /\ sw.storedSkips > 0
    /\ proc' = EXM_THROW(69)
    /\ UNCHANGED << prefs, displayLevel, jobVars, sw, cz, dz, ad, nm >>

SparseNext == SparseWrite \/ SparseWriteThrow \/ SparseEnd \/ SparseEndThrow

SpecSparse == SparseInit /\ [][SparseNext]_vars

SparseOn == sw.on /\ prefs.sparseFileSupport > 0 /\ prefs.testMode = 0

\* C1 : sparse enabled, not test mode : after any sequence of buffers followed by
\* the finalizer, the file reads back as the concatenation of the buffers, byte
\* for byte, and its length is the number of bytes passed.
C1_SparseRoundTrip ==
    (SparseOn /\ sw.ended)
      => /\ sw.file.content = sw.passed
         /\ Len(sw.file.content) = Len(sw.passed)

\* several buffers, data that is not all zero and that ends in a run of zeros
C1_Witness ==
    /\ SparseOn /\ sw.ended /\ proc.st = "running"
    /\ 0 < sw.last /\ sw.last < Len(sw.passed)
    /\ Len(sw.passed) >= SizeofSizeT + 2
    /\ \E k \in 1..Len(sw.passed) : sw.passed[k] # 0
    /\ sw.passed[Len(sw.passed)] = 0 /\ sw.passed[Len(sw.passed) - 1] = 0
    /\ Len(sw.file.content) = Len(sw.passed)


\* C31 : sparse enabled : after any sequence of calls, the position of the file
\* plus storedSkips is the number of bytes passed; every byte of the file is the
\* byte passed at that offset (a hole reads back as zeros), and every byte passed
\* that is not in the file yet, being skipped, is zero
C31_SparsePosition ==
    (SparseOn /\ proc.st = "running")
      => /\ sw.file.pos + sw.storedSkips = Len(sw.passed)
         /\ Len(sw.file.content) <= Len(sw.passed)
         /\ \A k \in 1..Len(sw.file.content) : sw.file.content[k] = sw.passed[k]
         /\ \A k \in (Len(sw.file.content) + 1)..Len(sw.passed) : sw.passed[k] = 0

\* a hole inside the file, data after it, and zeros still pending
C31_Witness ==
    /\ SparseOn /\ proc.st = "running" /\ ~ sw.ended
    /\ sw.storedSkips > 0
    /\ Len(sw.file.content) >= SizeofSizeT + 1
    /\ sw.passed[1] = 0 /\ sw.passed[SizeofSizeT] = 0
    /\ sw.passed[Len(sw.file.content)] # 0
    /\ sw.last < Len(sw.passed)

\* the sparse writer is called with sparse mode disabled or in test mode
SparseOff == sw.on /\ (prefs.sparseFileSupport = 0 \/ prefs.testMode # 0)

\* C30 (as stated) : sparse mode disabled or test mode on : every call writes all the
\* bytes of its buffer at the position of the file and returns storedSkips = 0
C30_PlainWrite ==
    (SparseOff /\ proc.st = "running")
      => /\ sw.file.content = sw.passed /\ sw.file.pos = Len(sw.passed)
         /\ sw.storedSkips = 0

\* C30 : sparse mode disabled and test mode off : every call writes all the bytes of
\* its buffer at the position of the file and returns storedSkips = 0, or ends the
\* process with code 70; test mode on : every call writes nothing, returns 0
C30_PlainWriteUnlessTest ==
    SparseOff
      => /\ (prefs.testMode = 0 /\ proc.st = "running")
               => /\ sw.file.content = sw.passed /\ sw.file.pos = Len(sw.passed)
                  /\ sw.storedSkips = 0
         /\ (prefs.testMode = 0 /\ proc.st # "running") => proc.code = 70
         /\ prefs.testMode # 0
               => /\ sw.file.content = << >> /\ sw.file.pos = 0 /\ sw.storedSkips = 0
                  /\ proc.st = "running"

\* two buffers written plainly, the second one all zeros
C30_Witness ==
    /\ SparseOff /\ prefs.testMode = 0 /\ proc.st = "running" /\ ~ sw.ended
    /\ 0 < sw.last /\ sw.last < Len(sw.passed)
    /\ \A k \in (Len(sw.passed) - sw.last + 1)..Len(sw.passed) : sw.passed[k] = 0
    /\ sw.file.content = sw.passed

(***************************************************************************)
(* FIO_compressZstdFrame : the pledged size and the read / compress loop   *)
(***************************************************************************)
SrcBufferSize == 2   \* ress.srcBufferSize, scaled down
MaxProduced == 2     \* most bytes the codec produces in one frame

\* (U64)(-1)
UTIL_FILESIZE_UNKNOWN == 0 - 1
ZSTD_CONTENTSIZE_UNKNOWN == 0 - 1

Min(a, b) == IF a < b THEN a ELSE b

\* a mutation : the declared stream size is not pledged
PledgedIgnoresStreamSize(fileSize, streamSrcSize) ==
    IF fileSize # UTIL_FILESIZE_UNKNOWN THEN fileSize ELSE ZSTD_CONTENTSIZE_UNKNOWN

\* pledgedSrcSize, as given to ZSTD_CCtx_setPledgedSrcSize
PledgedSrcSize(fileSize, streamSrcSize) ==
    IF fileSize # UTIL_FILESIZE_UNKNOWN THEN fileSize
    ELSE IF streamSrcSize > 0 THEN streamSrcSize
    ELSE ZSTD_CONTENTSIZE_UNKNOWN

\* ZSTD_compressStream2 : the results of one call that takes `taken` bytes of input.
\* The codec refuses input beyond the pledged size, and refuses to end a frame
\* whose input is not the pledged size; an ended frame may still need flushing.
ZSTD_compressStream2(cctx, taken, allIn, directive) ==
    LET consumed == cctx.consumed + taken
        known    == cctx.pledged # ZSTD_CONTENTSIZE_UNKNOWN
    IN  IF known /\ consumed > cctx.pledged THEN { "error" }
        ELSE IF directive = "end" /\ allIn
          THEN IF known /\ consumed # cctx.pledged THEN { "error" }
               ELSE { "flushed", "more" }
          ELSE { "more" }

ZstdCInit ==
    /\ \E streamSrcSize \in 0..MaxSrcSize :
         prefs = [FIO_createPreferences EXCEPT !.streamSrcSize = streamSrcSize]
    /\ displayLevel = 2
    /\ proc = Running
    /\ IdleJob /\ IdleSw /\ IdleDz /\ IdleAd /\ IdleNm
    /\ \E fileSize \in (0..MaxSrcSize) \cup {UTIL_FILESIZE_UNKNOWN},
          srcTotal \in 0..MaxSrcSize :
         cz = [ on           |-> TRUE,
                at           |-> "init",
                fileSize     |-> fileSize,
                srcTotal     |-> srcTotal,   \* bytes the source holds
                srcLeft      |-> srcTotal,   \* bytes not read yet
                ferror       |-> FALSE,
                readsize     |-> 0,
                inSize       |-> 0,
                inPos        |-> 0,
                directive    |-> "continue",
                stillToFlush |-> 0,
                cctx         |-> [pledged |-> ZSTD_CONTENTSIZE_UNKNOWN, consumed |-> 0],
                produced     |-> 0,       \* history : bytes the codec has produced
                dst          |-> << >>,   \* the bytes of dstFile, each known by its rank
                compressedfilesize |-> 0 ]

\* init : pledge the source size
ZstdCPledge ==
    /\ proc.st = "running" /\ cz.on /\ cz.at = "init"
    /\ cz' = [cz EXCEPT !.cctx.pledged = PledgedSrcSize(cz.fileSize, prefs.streamSrcSize),
                        !.at = "read"]
    /\ UNCHANGED << prefs, displayLevel, proc, jobVars, sw, dz, ad, nm >>

\* the values fread can return, with the error flag it leaves
FreadResults ==
    IF cz.ferror THEN { [n |-> 0, ferror |-> TRUE] }
    ELSE { [n |-> Min(SrcBufferSize, cz.srcLeft), ferror |-> FALSE] }
           \cup { [n |-> k, ferror |-> TRUE] : k \in 0..(Min(SrcBufferSize, cz.srcLeft) - 1) }

\* fill the input buffer; choose the directive
ZstdCRead ==
    /\ proc.st = "running" /\ cz.on /\ cz.at = "read"
    /\ \E r \in FreadResults :
         LET readsize == cz.readsize + r.n IN
           cz' = [cz EXCEPT !.inSize = r.n, !.inPos = 0,
                            !.srcLeft = @ - r.n, !.ferror = r.ferror,
                            !.readsize = readsize,
                            !.directive = IF r.n = 0 \/ readsize = cz.fileSize
                                            THEN "end" ELSE @,
                            !.stillToFlush = 1,
                            !.at = "compress"]
    /\ UNCHANGED << prefs, displayLevel, proc, jobVars, sw, dz, ad, nm >>

\* while (inBuff.pos != inBuff.size || (directive == ZSTD_e_end && stillToFlush != 0))
ZstdCMore ==
    \/ cz.inPos # cz.inSize
    \/ (cz.directive = "end" /\ cz.stillToFlush # 0)

\* a mutation : the size returned does not count the bytes of a call
CompressedSizeKept(compressedfilesize, outPos) == compressedfilesize

\* compressedfilesize += outBuff.pos
CompressedSize(compressedfilesize, outPos) == compressedfilesize + outPos

\* one turn of the inner loop : CHECK_V(stillToFlush, ZSTD_compressStream2(...)),
\* then the outPos bytes the call produced are written
ZstdCCompress ==
    /\ proc.st = "running" /\ cz.on /\ cz.at = "compress" /\ ZstdCMore
    /\ \E taken \in 0..(cz.inSize - cz.inPos), outPos \in 0..(MaxProduced - cz.produced) :
         /\ (taken = 0) => (cz.inPos = cz.inSize)
         /\ \E res \in ZSTD_compressStream2(cz.cctx, taken,
                                            cz.inPos + taken = cz.inSize, cz.directive) :
              IF res = "error"
                THEN /\ outPos = 0
                     /\ proc' = EXM_THROW(11)
                     /\ cz' = [cz EXCEPT !.at = "done"]
                ELSE \/ /\ cz' = [cz EXCEPT !.inPos = @ + taken,
                                            !.cctx.consumed = @ + taken,
                                            !.stillToFlush = IF res = "flushed" THEN 0 ELSE 1,
                                            !.produced = @ + outPos,
                                            !.dst = @ \o [k \in 1..outPos |-> cz.produced + k],
                                            !.compressedfilesize = CompressedSize(@, outPos)]
                        /\ UNCHANGED proc
                     \/ /\ outPos > 0
                        /\ proc' = EXM_THROW(25)      \* fwrite fails
                        /\ cz' = [cz EXCEPT !.at = "done", !.produced = @ + outPos]
    /\ UNCHANGED << prefs, displayLevel, jobVars, sw, dz, ad, nm >>

\* } while (directive != ZSTD_e_end);
ZstdCLoop ==
    /\ proc.st = "running" /\ cz.on /\ cz.at = "compress" /\ ~ ZstdCMore
    /\ cz' = [cz EXCEPT !.at = IF cz.directive # "end" THEN "read" ELSE "final"]
    /\ UNCHANGED << prefs, displayLevel, proc, jobVars, sw, dz, ad, nm >>

\* the checks after the loop; return compressedfilesize
ZstdCFinal ==
    /\ proc.st = "running" /\ cz.on /\ cz.at = "final"
    /\ IF cz.ferror
         THEN /\ proc' = EXM_THROW(26)
              /\ cz' = [cz EXCEPT !.at = "done"]
         ELSE IF cz.fileSize # UTIL_FILESIZE_UNKNOWN /\ cz.readsize # cz.fileSize
           THEN /\ proc' = EXM_THROW(27)
                /\ cz' = [cz EXCEPT !.at = "done"]
           ELSE /\ cz' = [cz EXCEPT !.at = "returned"]
                /\ UNCHANGED proc
    /\ UNCHANGED << prefs, displayLevel, jobVars, sw, dz, ad, nm >>

ZstdCNext == ZstdCPledge \/ ZstdCRead \/ ZstdCCompress \/ ZstdCLoop \/ ZstdCFinal

SpecZstdC == ZstdCInit /\ [][ZstdCNext]_vars

\* the pledged size is known and the source holds fewer bytes than pledged
PledgeShort ==
    /\ cz.on
    /\ \/ cz.fileSize # UTIL_FILESIZE_UNKNOWN /\ cz.srcTotal < cz.fileSize
       \/ cz.fileSize = UTIL_FILESIZE_UNKNOWN /\ prefs.streamSrcSize > 0
            /\ cz.srcTotal < prefs.streamSrcSize

C33_LoopEnd ==
    (cz.on /\ cz.at = "returned")
      => /\ proc.st = "running"
         /\ cz.directive = "end"
         /\ cz.inPos = cz.inSize /\ cz.cctx.consumed = cz.readsize
         /\ cz.stillToFlush = 0
         /\ cz.dst = [k \in 1..cz.produced |-> k]
         /\ cz.compressedfilesize = Len(cz.dst)

\* several reads, and a codec that has produced all the bytes it can
C33_Witness ==
    /\ cz.on /\ cz.at = "returned"
    /\ cz.readsize > SrcBufferSize
    /\ cz.produced = MaxProduced /\ Len(cz.dst) = MaxProduced

(***************************************************************************)
(* Specification of the frame dispatcher : FIO_decompressFrames and the    *)
(* frame decoders on one source, byte by byte.  A source byte is known by  *)
(* its position; buffers hold positions.  The bytes written go to dz.out   *)
(* in the order of the calls of fwrite / FIO_fwriteSparse.                 *)
(***************************************************************************)
MagicSize == 4        \* toRead : the bytes of a magic number
FrameHeaderMax == 5   \* ZSTD_FRAMEHEADERSIZE_MAX, scaled
DSrcBufferSize == 6   \* ress.srcBufferSize of the decoder, scaled
MaxFrameLen == 5      \* frames of MagicSize..MaxFrameLen bytes
MaxFrames == 2        \* frames of a source : 0..MaxFrames
MaxTail == 5          \* bytes after the last frame that belong to no frame : 0..MaxTail

Formats == { "zstd", "gz", "xz", "lzma", "lz4" }
OptionalFormats == { "gz", "xz", "lzma", "lz4" }   \* compiled in or not

\* the bytes of frame f : position k of the frame, magic number first
FrameBytes(f, fmt, len, content) ==
    [ k \in 1..len |-> [ f |-> f, k |-> k, fmt |-> fmt,
                         v |-> IF k > MagicSize /\ k - MagicSize <= Len(content)
                                 THEN content[k - MagicSize] ELSE 0 ] ]
\* bytes that belong to no frame
TailBytes(n) == [ k \in 1..n |-> [ f |-> 0, k |-> k, fmt |-> "none", v |-> 0 ] ]

FrameShapes == [ fmt : Formats, len : MagicSize..MaxFrameLen ]
RECURSIVE LayoutsOfLen(_)
LayoutsOfLen(n) ==
    IF n = 0 THEN { << >> }
    ELSE { Append(q, s) : q \in LayoutsOfLen(n - 1), s \in FrameShapes }
Layouts == UNION { LayoutsOfLen(n) : n \in 0..MaxFrames }

RECURSIVE LayoutBytes(_, _)
LayoutBytes(layout, f) ==
    IF f > Len(layout) THEN << >>
    ELSE FrameBytes(f, layout[f].fmt, layout[f].len, << >>) \o LayoutBytes(layout, f + 1)

\* fread : the next n bytes of the source, fewer at the end of the file
Fread(src, pos, n) ==
    [ k \in 1..Min(n, Len(src) - pos) |-> pos + k ]

\* the end of the part of the source buffer that the calls of fread were allowed
\* to write so far, after a call of fread(srcBuffer + start, 1, toRead, file)
ReadEnd(readEnd, start, toRead) ==
    IF start + toRead > readEnd THEN start + toRead ELSE readEnd

\* the magic number in the first MagicSize bytes of the buffer
MagicOf(src, buf) ==
    IF /\ Len(buf) >= MagicSize
       /\ src[buf[1]].k = 1
       /\ \A i \in 1..MagicSize :
             buf[i] = buf[1] + i - 1 /\ src[buf[i]].f = src[buf[1]].f
      THEN src[buf[1]].fmt
      ELSE "none"

\* the decoder of the frame that starts at the first byte of the buffer
NewDecoder(lens, src, buf) ==
    [ start |-> buf[1], need |-> lens[src[buf[1]].f], used |-> 0, nextToLoad |-> 0,
      flush |-> FALSE ]
NoDecoder == [ start |-> 0, need |-> 0, used |-> 0, nextToLoad |-> 0, flush |-> FALSE ]

\* the bytes taken are the bytes the decoder is waiting for
Expected(dec, taken) ==
    \A i \in 1..Len(taken) : taken[i] = dec.start + dec.used + i - 1

\* ZSTD_decompressStream / inflate / lzma_code / LZ4F_decompress : a decoder
\* handed the bytes of its frame goes on; handed other bytes it may fail or go on
DecodeResults(dec, taken) ==
    IF Expected(dec, taken) THEN { "ok" } ELSE { "ok", "error" }

\* the decoder after it took n bytes
Advance(dec, n) == [ dec EXCEPT !.need = @ - n, !.used = @ + n ]

\* the hints a decoder can give for its next input : 0 at the end of the frame
Hints(need) == IF need = 0 THEN { 0 } ELSE 1..need

\* decoded bytes of the bytes taken : one per byte after the magic number
Decoded(src, taken) ==
    [ i \in 1..Len(SelectSeq(taken, LAMBDA p : src[p].k > MagicSize)) |->
        [ t |-> "dec", p |-> SelectSeq(taken, LAMBDA p : src[p].k > MagicSize)[i] ] ]

RawBytes(ps) == [ i \in 1..Len(ps) |-> [ t |-> "raw", p |-> ps[i] ] ]

\* a mutation : pass-through forgets the bytes already loaded
FIO_passThroughDropsLoaded(buffer, rest) == RawBytes(rest)

\* FIO_passThrough : the bytes written, from the bytes already loaded and the
\* bytes of the input not read yet (read by blocks until a short block)
FIO_passThrough(buffer, rest) == RawBytes(buffer) \o RawBytes(rest)

\* a mutation : the end of the input is always a success
EofStatusAlwaysOk(readSomething) == 0

\* the status at the end of the input : an empty source is an error
EofStatus(readSomething) == IF readSomething = 0 THEN 1 ELSE 0

FramesInitWith(layouts, tails) ==
    /\ \E overwrite \in 0..1 :
         prefs = [FIO_createPreferences EXCEPT !.overwrite = overwrite]
    /\ displayLevel = 2
    /\ proc = Running
    /\ IdleJob /\ IdleSw /\ IdleCz /\ IdleAd /\ IdleNm
    /\ \E layout \in layouts, tail \in tails, cut \in 0..1,
          build \in { {}, OptionalFormats },
          dstFileName \in { stdoutmark, ExplicitName } :
         /\ cut = 1 => (tail = 0 /\ Len(layout) > 0)
         /\ LET all == LayoutBytes(layout, 1) \o TailBytes(tail)
                src == SubSeq(all, 1, Len(all) - cut)
            IN dz = [ on            |-> TRUE,
                      src           |-> src,
                      lens          |-> [ f \in 1..Len(layout) |-> layout[f].len ],
                      wellFormed    |-> /\ tail = 0 /\ cut = 0
                                        /\ \A f \in 1..Len(layout) :
                                              layout[f].fmt \in build \cup { "zstd" },
                      build         |-> build,
                      dstFileName   |-> dstFileName,
                      at            |-> "dispatch",
                      pos           |-> 0,          \* bytes read from srcFile
                      buf           |-> << >>,      \* ress.srcBuffer[0 .. srcBufferLoaded)
                      readEnd       |-> 0,          \* see ReadEnd
                      readSomething |-> 0,
                      dec           |-> NoDecoder,
                      ret           |-> 0,
                      frames        |-> 0,          \* frames decoded
                      fed           |-> << >>,      \* bytes handed to the decoders
                      out           |-> << >>,      \* bytes written
                      disp          |-> [ avail |-> 0, magic |-> "none", buf |-> << >>,
                                          rest |-> << >>, outLen |-> 0, n |-> 0 ],
                      pass          |-> FALSE ]

FramesInit == FramesInitWith(Layouts, 0..MaxTail)

DzUnchanged ==
    UNCHANGED << prefs, displayLevel, proc, jobVars, sw, cz, ad, nm >>

DzReturn(d, code) == [ d EXCEPT !.at = "returned", !.ret = code ]

\* FIO_decompressFrames : one turn of the loop over the frames
DzDispatch ==
    /\ dz.on /\ dz.at = "dispatch"
    /\ LET got   == IF Len(dz.buf) < MagicSize
                      THEN Fread(dz.src, dz.pos, MagicSize - Len(dz.buf)) ELSE << >>
           buf   == dz.buf \o got
           pos   == dz.pos + Len(got)
           magic == MagicOf(dz.src, buf)
           d0    == [ dz EXCEPT !.buf = buf, !.pos = pos,
                        !.readEnd = IF Len(dz.buf) < MagicSize
                                      THEN ReadEnd(@, Len(dz.buf), MagicSize - Len(dz.buf))
                                      ELSE @,
                        !.disp = [ avail  |-> Len(dz.buf) + Len(dz.src) - dz.pos,
                                   magic  |-> magic,
                                   buf    |-> buf,
                                   rest   |-> Fread(dz.src, pos, Len(dz.src)),
                                   outLen |-> Len(dz.out),
                                   n      |-> @.n + 1 ] ]
           d1    == [ d0 EXCEPT !.readSomething = 1 ]
       IN
         IF Len(buf) = 0 THEN
             dz' = DzReturn(d0, EofStatus(dz.readSomething))
         ELSE IF Len(buf) < MagicSize THEN
             dz' = DzReturn(d1, 1)
         ELSE IF magic = "zstd" THEN
             dz' = [ d1 EXCEPT !.at = "zstd_header",
                               !.dec = NewDecoder(dz.lens, dz.src, buf) ]
         ELSE IF magic \in { "gz", "xz", "lzma" } THEN
             IF magic \in dz.build
               THEN dz' = [ d1 EXCEPT !.at = "gz",
                                      !.dec = NewDecoder(dz.lens, dz.src, buf) ]
               ELSE dz' = DzReturn(d1, 1)
         ELSE IF magic = "lz4" THEN
             IF magic \in dz.build
               THEN dz' = [ d1 EXCEPT !.at = "lz4_begin",
                                      !.dec = NewDecoder(dz.lens, dz.src, buf) ]
               ELSE dz' = DzReturn(d1, 1)
         ELSE IF prefs.overwrite # 0 /\ dz.dstFileName = stdoutmark THEN
             dz' = [ d1 EXCEPT !.at = "pass", !.pass = TRUE ]
         ELSE
             dz' = DzReturn(d1, 1)
    /\ DzUnchanged

\* FIO_passThrough
DzPassThrough ==
    /\ dz.on /\ dz.at = "pass"
    /\ LET rest == Fread(dz.src, dz.pos, Len(dz.src))
       IN dz' = DzReturn([ dz EXCEPT !.out = @ \o FIO_passThrough(dz.buf, rest),
                                     !.pos = Len(dz.src),
                                     !.buf = << >> ], 0)
    /\ DzUnchanged

\* FIO_decompressZstdFrame : header loading
DzZstdHeader ==
    /\ dz.on /\ dz.at = "zstd_header"
    /\ LET got == IF Len(dz.buf) < FrameHeaderMax
                    THEN Fread(dz.src, dz.pos, FrameHeaderMax - Len(dz.buf)) ELSE << >>
       IN dz' = [ dz EXCEPT !.buf = @ \o got, !.pos = @ + Len(got), !.at = "zstd",
                            !.readEnd = IF Len(dz.buf) < FrameHeaderMax
                                          THEN ReadEnd(@, Len(dz.buf),
                                                       FrameHeaderMax - Len(dz.buf))
                                          ELSE @ ]
    /\ DzUnchanged

\* a mutation : the hint of the decoder is taken as it is
ToDecodeUnbounded(readSizeHint, srcBufferSize) == readSizeHint

\* toDecode = MIN(readSizeHint, ress->srcBufferSize)
ToDecode(readSizeHint, srcBufferSize) == Min(readSizeHint, srcBufferSize)

\* a mutation : a read of no byte is not taken for the end of the input
PrematureEndMissed(loaded, toDecode, readSize) == FALSE

\* if (ress->srcBufferLoaded < toDecode) { ... if (readSize==0) : premature end
PrematureEnd(loaded, toDecode, readSize) == loaded < toDecode /\ readSize = 0

\* FIO_decompressZstdFrame : one turn of the main decompression loop
DzZstdLoop ==
    /\ dz.on /\ dz.at = "zstd"
    /\ LET n     == Min(Len(dz.buf), dz.dec.need)
           taken == SubSeq(dz.buf, 1, n)
           rest  == SubSeq(dz.buf, n + 1, Len(dz.buf))
           dec   == Advance(dz.dec, n)
           d0    == [ dz EXCEPT !.fed = @ \o taken ]
           d1    == [ d0 EXCEPT !.out = @ \o Decoded(dz.src, taken),
                                !.buf = rest, !.dec = dec ]
       IN \E r \in DecodeResults(dz.dec, taken) :
            IF r = "error" THEN
                dz' = DzReturn(d0, 1)
            ELSE \E readSizeHint \in Hints(dec.need) :
                IF readSizeHint = 0 THEN
                    dz' = [ d1 EXCEPT !.at = "dispatch", !.frames = @ + 1 ]
                ELSE
                    LET toDecode == ToDecode(readSizeHint, DSrcBufferSize)
                        got      == IF Len(rest) < toDecode
                                      THEN Fread(dz.src, dz.pos, toDecode - Len(rest))
                                      ELSE << >>
                        d2       == [ d1 EXCEPT !.readEnd =
                                        IF Len(rest) < toDecode
                                          THEN ReadEnd(@, Len(rest), toDecode - Len(rest))
                                          ELSE @ ]
                    IN IF PrematureEnd(Len(rest), toDecode, Len(got))
                         THEN dz' = DzReturn(d2, 1)
                         ELSE dz' = [ d2 EXCEPT !.buf = rest \o got,
                                                !.pos = @ + Len(got) ]
    /\ DzUnchanged

\* FIO_decompressGzFrame / FIO_decompressLzmaFrame : one turn of the loop,
\* and what follows the loop when it is left
DzGzLoop ==
    /\ dz.on /\ dz.at = "gz"
    /\ LET refill == Len(dz.buf) = 0
           got    == IF refill THEN Fread(dz.src, dz.pos, DSrcBufferSize) ELSE << >>
           in     == IF refill THEN got ELSE dz.buf
           flush  == dz.dec.flush \/ (refill /\ Len(got) = 0)
           n      == Min(Len(in), dz.dec.need)
           taken  == SubSeq(in, 1, n)
           rest   == SubSeq(in, n + 1, Len(in))
           dec    == [ Advance(dz.dec, n) EXCEPT !.flush = flush ]
           d0     == [ dz EXCEPT !.fed = @ \o taken, !.pos = @ + Len(got), !.buf = rest,
                                 !.readEnd = IF refill THEN ReadEnd(@, 0, DSrcBufferSize)
                                                       ELSE @ ]
           d1     == [ d0 EXCEPT !.out = @ \o Decoded(dz.src, taken), !.dec = dec ]
       IN \E r \in DecodeResults(dz.dec, taken) :
            IF r = "error" THEN
                dz' = DzReturn(d0, 1)
            ELSE IF dec.need = 0 THEN
                dz' = [ d1 EXCEPT !.at = "dispatch", !.frames = @ + 1 ]
            ELSE IF flush THEN
                dz' = DzReturn(d1, 1)
            ELSE
                dz' = d1
    /\ DzUnchanged

\* FIO_decompressLz4Frame : the decoder is fed with the magic number; what else
\* is in the buffer is not used
DzLz4Begin ==
    /\ dz.on /\ dz.at = "lz4_begin"
    /\ LET taken == SubSeq(dz.buf, 1, MagicSize)
           dec   == Advance(dz.dec, MagicSize)
           d0    == [ dz EXCEPT !.fed = @ \o taken ]
       IN \E r \in DecodeResults(dz.dec, taken) :
            IF r = "error" THEN
                dz' = DzReturn(d0, 1)
            ELSE \E nextToLoad \in Hints(dec.need) :
                dz' = [ d0 EXCEPT !.dec = [ dec EXCEPT !.nextToLoad = nextToLoad ],
                                  !.at = "lz4" ]
    /\ DzUnchanged

\* FIO_decompressLz4Frame : one turn of the main loop, and what follows the loop
\* when it is left
DzLz4Loop ==
    /\ dz.on /\ dz.at = "lz4"
    /\ IF dz.dec.nextToLoad = 0 THEN
           dz' = [ dz EXCEPT !.buf = << >>, !.at = "dispatch", !.frames = @ + 1 ]
       ELSE
           LET got == Fread(dz.src, dz.pos, Min(dz.dec.nextToLoad, DSrcBufferSize))
               n   == Min(Len(got), dz.dec.need)
               dec == Advance(dz.dec, n)
               d0  == [ dz EXCEPT !.fed = @ \o got, !.pos = @ + Len(got),
                                  !.buf = << >>,
                                  !.readEnd = ReadEnd(@, 0, Min(dz.dec.nextToLoad,
                                                                DSrcBufferSize)) ]
           IN IF Len(got) = 0 THEN
                  dz' = DzReturn(d0, 1)
              ELSE \E r \in DecodeResults(dz.dec, got) :
                  IF r = "error" THEN
                      dz' = DzReturn(d0, 1)
                  ELSE \E nextToLoad \in Hints(dec.need) :
                      dz' = [ d0 EXCEPT !.out = @ \o Decoded(dz.src, got),
                                        !.dec = [ dec EXCEPT !.nextToLoad = nextToLoad ] ]
    /\ DzUnchanged

FramesNext ==
    \/ DzDispatch \/ DzPassThrough
    \/ DzZstdHeader \/ DzZstdLoop \/ DzGzLoop \/ DzLz4Begin \/ DzLz4Loop

SpecFrames == FramesInit /\ [][FramesNext]_vars

Identity(q) == \A k \in 1..Len(q) : q[k] = k

\* C11 : in a source that is a concatenation of frames of the supported formats,
\* every byte is handed to a frame decoder exactly once and in source order : the
\* bytes handed so far are the first bytes of the source, and at the return they
\* are all the bytes of the source.
C11_EachByteDecodedOnce ==
    (dz.on /\ dz.wellFormed)
      => /\ Identity(dz.fed)
         /\ dz.at = "returned" => Len(dz.fed) = Len(dz.src)

\* C13 : the dispatcher returns 0 at the end of the input only after a frame was
\* decoded; an input of zero bytes is an error; 1 to 3 bytes left are an error
\* and are not handed to a decoder nor passed through.
C13_EndOfInput ==
    dz.on =>
      /\ (dz.at = "returned" /\ dz.ret = 0 /\ ~ dz.pass) => dz.frames >= 1
      /\ (dz.disp.n > 0 /\ dz.disp.avail = 0 /\ dz.frames = 0)
            => (dz.at = "returned" /\ dz.ret = 1)
      /\ (dz.disp.n > 0 /\ dz.disp.avail \in 1..(MagicSize - 1))
            => (dz.at = "returned" /\ dz.ret = 1 /\ Len(dz.out) = dz.disp.outLen)

C13_Witness ==
    /\ dz.on /\ dz.at = "returned" /\ dz.ret = 1
    /\ dz.frames >= 1 /\ dz.disp.avail \in 1..(MagicSize - 1)

MaxTermFrames == 2    \* frames of such a source : 0..MaxTermFrames

TermShapes == [ fmt : Formats, len : { MagicSize, FrameHeaderMax + 2 } ]
RECURSIVE TermLayoutsOfLen(_)
TermLayoutsOfLen(n) ==
    IF n = 0 THEN { << >> }
    ELSE { Append(q, s) : q \in TermLayoutsOfLen(n - 1), s \in TermShapes }
TermLayouts == UNION { TermLayoutsOfLen(n) : n \in 0..MaxTermFrames }

TermInit == FramesInitWith(TermLayouts, { 0, 1, MagicSize })

\* the decoding of one source under the scheduling of a sequential program : a step
\* that can be taken is taken
FairFrames == TermInit /\ [][FramesNext]_vars /\ WF_vars(FramesNext)

\* a turn of the zstd frame loop after which the loop goes on
ZstdLoopGoesOn == dz.on /\ dz.at = "zstd" /\ dz'.at = "zstd" /\ dz'.frames = dz.frames

MaxLongFrames == 1   \* frames of a source : 0..MaxLongFrames

LongShapes == [ fmt : Formats, len : { MagicSize, FrameHeaderMax + DSrcBufferSize + 2 } ]
RECURSIVE LongLayoutsOfLen(_)
LongLayoutsOfLen(n) ==
    IF n = 0 THEN { << >> }
    ELSE { Append(q, s) : q \in LongLayoutsOfLen(n - 1), s \in LongShapes }
LongLayouts == UNION { LongLayoutsOfLen(n) : n \in 0..MaxLongFrames }

LongInit == FramesInitWith(LongLayouts, { 0, 1, MagicSize })

SpecLongFrames == LongInit /\ [][FramesNext]_vars

FastLevels == 2           \* negative levels : ZSTD_minCLevel() is -FastLevels
Z_BEST_COMPRESSION == 9
MinCLevel == 0 - FastLevels
MaxCLevel == Z_BEST_COMPRESSION + 1   \* ZSTD_maxCLevel(), above the levels of gzip and xz
Z_OK == "Z_OK"
Z_STREAM_ERROR == "Z_STREAM_ERROR"

\* deflateInit2 : the levels of zlib are Z_DEFAULT_COMPRESSION (-1) and 0..9
deflateInit2(level) ==
    IF level \in (0 - 1)..Z_BEST_COMPRESSION THEN Z_OK ELSE Z_STREAM_ERROR

\* FIO_compressGzFrame : the level handed to deflateInit2
GzLevel(compressionLevel) ==
    IF compressionLevel > Z_BEST_COMPRESSION THEN Z_BEST_COMPRESSION
    ELSE compressionLevel

\* the bytes handed to the encoder : blocks read until fread returns nothing
RECURSIVE ReadBlocks(_, _)
ReadBlocks(content, pos) ==
    IF pos >= Len(content) THEN << >>
    ELSE SubSeq(content, pos + 1, Min(pos + SrcBufferSize, Len(content)))
           \o ReadBlocks(content, Min(pos + SrcBufferSize, Len(content)))

\* ZSTD_compressStream2 / deflate / lzma_code / LZ4F_compressUpdate : a frame of
\* the format, that decodes to the bytes handed to the encoder
EncodeFrame(fmt, input) == FrameBytes(1, fmt, MagicSize + Len(input), input)

RoundTripInit ==
    /\ prefs = FIO_createPreferences
    /\ displayLevel = 2
    /\ proc = Running
    /\ IdleJob /\ IdleSw /\ IdleCz /\ IdleAd /\ IdleNm
    /\ \E content \in UNION { SeqsOfLen(n) : n \in 0..MaxSrcSize },
          compressionLevel \in MinCLevel..MaxCLevel,
          build \in { {}, OptionalFormats },
          compressionType \in Formats :
         /\ compressionType \in build \cup { "zstd" }
         /\ dz = [ on               |-> TRUE,
                   content          |-> content,
                   compressionLevel |-> compressionLevel,
                   compressionType  |-> compressionType,
                   src              |-> << >>,
                   lens             |-> << >>,
                   wellFormed       |-> TRUE,
                   build            |-> build,
                   dstFileName      |-> ExplicitName,
                   at               |-> "compress",
                   pos              |-> 0,
                   buf              |-> << >>,
                   readEnd          |-> 0,
                   readSomething    |-> 0,
                   dec              |-> NoDecoder,
                   ret              |-> 0,
                   frames           |-> 0,
                   fed              |-> << >>,
                   out              |-> << >>,
                   disp             |-> [ avail |-> 0, magic |-> "none", buf |-> << >>,
                                          rest |-> << >>, outLen |-> 0, n |-> 0 ],
                   pass             |-> FALSE ]

\* FIO_compressFilename_internal : format selection, then the frame of the format
RtCompress ==
    /\ dz.on /\ dz.at = "compress"
    /\ LET t     == dz.compressionType
           frame == EncodeFrame(t, ReadBlocks(dz.content, 0))
           done  == [ dz EXCEPT !.src = frame, !.lens = << Len(frame) >>,
                                !.at = "dispatch" ]
       IN
         IF t # "zstd" /\ t \notin dz.build THEN
             /\ proc' = EXM_THROW(20)
             /\ dz' = dz
         ELSE IF t = "gz" /\ deflateInit2(GzLevel(dz.compressionLevel)) # Z_OK THEN
             /\ proc' = EXM_THROW(71)
             /\ dz' = dz
         ELSE
             /\ proc' = proc
             /\ dz' = done
    /\ UNCHANGED << prefs, displayLevel, jobVars, sw, cz, ad, nm >>

RoundTripNext ==
    \/ RtCompress
    \/ DzDispatch \/ DzZstdHeader \/ DzZstdLoop \/ DzGzLoop \/ DzLz4Begin \/ DzLz4Loop

SpecRoundTrip == RoundTripInit /\ [][RoundTripNext]_vars

\* the values of the bytes written by the decoders
RtOutput == [ i \in 1..Len(dz.out) |-> dz.src[dz.out[i].p].v ]

\* C12 : for every input, every valid level and every format of the build, the
\* compression does not fail and decompressing its output gives the input back.
C12_RoundTrip ==
    dz.on
      => /\ proc.st = "running"
         /\ dz.at = "returned" => (dz.ret = 0 /\ RtOutput = dz.content)

\* C36 : once FIO_compressGzFrame has initialised the encoder, or has failed to, the
\* level it handed to deflateInit2 is in 0..Z_BEST_COMPRESSION, whatever level was
\* asked for, negative ones included
C36_GzLevelClamped ==
    (dz.on /\ dz.compressionType = "gz" /\ "gz" \in dz.build
       /\ (dz.at # "compress" \/ proc.st # "running"))
      => GzLevel(dz.compressionLevel) \in 0..Z_BEST_COMPRESSION

(***************************************************************************)
(* Specification of the adaptive level control of FIO_compressZstdFrame.   *)
(* One step is one iteration of the inner compression loop; the progress   *)
(* report of the library (zfp) is an input of each refresh, given by the   *)
(* outcome of each comparison the code makes on it.                        *)
(***************************************************************************)
MaxLevel == 2       \* levels of the codec : -MaxLevel..MaxLevel
MaxJobs == 3        \* jobs completed in one run : 0..MaxJobs
MaxPresented == 3   \* calls of the compressor between two corrections

ZSTD_maxCLevel == MaxLevel
ZSTD_minCLevel == 0 - MaxLevel

AdaptInit ==
    /\ \E lo \in ZSTD_minCLevel..ZSTD_maxCLevel, hi \in ZSTD_minCLevel..ZSTD_maxCLevel,
          level \in ZSTD_minCLevel..ZSTD_maxCLevel, nbWorkers \in 1..MaxWorkers,
          adapt \in 0..1 :
         /\ lo <= hi
         /\ adapt = 0 => (lo = ZSTD_minCLevel /\ hi = ZSTD_maxCLevel)
         /\ prefs = [FIO_createPreferences EXCEPT !.nbWorkers = nbWorkers,
                                                  !.adaptiveMode = adapt,
                                                  !.minAdaptLevel = lo,
                                                  !.maxAdaptLevel = hi]
         /\ ad = [ on               |-> TRUE,
                   compressionLevel |-> level,
                   speedChange      |-> "noChange",
                   flushWaiting     |-> 0,
                   inputPresented   |-> 0,
                   inputBlocked     |-> 0,
                   lastJobID        |-> 0,
                   currentJobID     |-> 0,
                   reached          |-> level = hi,
                   onlySlower       |-> TRUE,
                   seen             |-> FALSE,   \* a slower condition held since the last correction
                   last             |-> [ corrected |-> FALSE ] ]
    /\ displayLevel = 2
    /\ proc = Running
    /\ IdleJob /\ IdleSw /\ IdleCz /\ IdleDz /\ IdleNm

\* a mutation : the step towards a higher level does not skip 0
SlowerLevelKeepsZero(compressionLevel, maxAdaptLevel) ==
    LET inc  == compressionLevel + 1
        cmax == IF inc > ZSTD_maxCLevel THEN ZSTD_maxCLevel ELSE inc
    IN  IF cmax > maxAdaptLevel THEN maxAdaptLevel ELSE cmax

\* lines 1515-1522 : one step towards a higher level
SlowerLevel(compressionLevel, maxAdaptLevel) ==
    LET inc  == compressionLevel + 1
        cmax == IF inc > ZSTD_maxCLevel THEN ZSTD_maxCLevel ELSE inc
        amax == IF cmax > maxAdaptLevel THEN maxAdaptLevel ELSE cmax
    IN  IF amax = 0 THEN amax + 1 ELSE amax

\* lines 1523-1529 : one step towards a lower level
FasterLevel(compressionLevel, minAdaptLevel) ==
    LET dec  == compressionLevel - 1
        amin == IF dec < minAdaptLevel THEN minAdaptLevel ELSE dec
    IN  IF amin = 0 THEN amin - 1 ELSE amin

\* lines 1396-1398 : statistics of one call of the compressor
CountStats(a, blocked, toFlushNow) ==
    [a EXCEPT !.inputPresented = @ + 1,
              !.inputBlocked   = IF blocked THEN @ + 1 ELSE @,
              !.flushWaiting   = IF ~toFlushNow THEN 1 ELSE @]

\* an iteration of the inner loop between two refreshes of the display
AdaptCompress ==
    /\ proc.st = "running" /\ ad.on
    /\ ad.inputPresented < MaxPresented
    /\ \E blocked \in BOOLEAN, toFlushNow \in BOOLEAN :
         ad' = CountStats(ad, blocked, toFlushNow)
    /\ UNCHANGED << prefs, displayLevel, proc, jobVars, sw, cz, dz, nm >>

\* lines 1453-1480 : the output speed test of one refresh
OutputCheck(a, job, stalled, overProduced) ==
    IF job > 1
    THEN [a EXCEPT !.speedChange  = IF stalled \/ (overProduced /\ a.flushWaiting = 0)
                                    THEN "slower" ELSE @,
                   !.flushWaiting = 0]
    ELSE a

\* a mutation : the warm up period is not waited for
WarmedUpAlways(job) == TRUE

\* line 1487 : the warm up period, to fill all workers, is over
WarmedUp(job) == job > prefs.nbWorkers + 1

\* a mutation : a counter of zero is not taken for an input that is never blocked
NeverBlockedIgnored(inputBlocked) == FALSE

\* line 1488 : input is never blocked => input is slower than ingestion
NeverBlocked(inputBlocked) == inputBlocked <= 0

\* lines 1487-1513 : the input speed test of one correction
InputCheck(a, job, flushedAll, ingestKeepsUp) ==
    IF WarmedUp(job)
    THEN [a EXCEPT !.speedChange =
                      IF NeverBlocked(a.inputBlocked) THEN "slower"
                      ELSE IF /\ a.speedChange = "noChange"
                              /\ a.inputBlocked > a.inputPresented \div 8
                              /\ flushedAll
                              /\ ingestKeepsUp
                           THEN "faster"
                           ELSE @,
                   !.inputBlocked   = 0,
                   !.inputPresented = 0]
    ELSE a

\* a mutation : the correction does not wait for a new job
NewJobAlways(currentJobID, lastJobID) == TRUE

\* line 1483 : at least one new job completed
NewJob(currentJobID, lastJobID) == currentJobID > lastJobID

\* lines 1483-1533 : the correction, made when a job completed since the last one
Correction(a, job, flushedAll, ingestKeepsUp) ==
    IF NewJob(job, a.lastJobID)
    THEN LET b     == InputCheck(a, job, flushedAll, ingestKeepsUp)
             level == IF b.speedChange = "slower"
                      THEN SlowerLevel(b.compressionLevel, prefs.maxAdaptLevel)
                      ELSE IF b.speedChange = "faster"
                      THEN FasterLevel(b.compressionLevel, prefs.minAdaptLevel)
                      ELSE b.compressionLevel
         IN  [b EXCEPT !.compressionLevel = level,
                       !.speedChange      = "noChange",
                       !.lastJobID        = job,
                       !.onlySlower       = @ /\ b.speedChange = "slower",
                       !.reached          = @ \/ level = prefs.maxAdaptLevel,
                       !.seen             = FALSE,
                       !.last             = [ corrected |-> TRUE,
                                              blocked   |-> a.inputBlocked,
                                              seen      |-> a.seen,
                                              change    |-> b.speedChange,
                                              before    |-> b.compressionLevel,
                                              after     |-> level ] ]
    ELSE [a EXCEPT !.last = [ corrected |-> FALSE ]]

\* an iteration of the inner loop in which READY_FOR_UPDATE() holds; the outcome
\* of a comparison is drawn where the code makes the comparison
AdaptUpdate ==
    /\ proc.st = "running" /\ ad.on
    /\ ad.inputPresented < MaxPresented
    /\ \E blocked \in BOOLEAN, toFlushNow \in BOOLEAN,
          job \in ad.currentJobID..(ad.currentJobID + 1) :
         /\ job <= MaxJobs
         /\ LET stats    == [CountStats(ad, blocked, toFlushNow) EXCEPT !.currentJobID = job]
                output   == prefs.adaptiveMode # 0 /\ job > 1
                input    == /\ prefs.adaptiveMode # 0
                            /\ NewJob(job, ad.lastJobID) /\ WarmedUp(job)
            IN  \E stalled \in (IF output THEN BOOLEAN ELSE {FALSE}),
                   overProduced \in (IF output THEN BOOLEAN ELSE {FALSE}),
                   flushedAll \in (IF input THEN BOOLEAN ELSE {FALSE}),
                   ingestKeepsUp \in (IF input THEN BOOLEAN ELSE {FALSE}) :
                  LET counted == [stats EXCEPT !.seen = \/ @
                                                        \/ stalled
                                                        \/ overProduced /\ stats.flushWaiting = 0]
                  IN  ad' = IF prefs.adaptiveMode # 0
                            THEN Correction(OutputCheck(counted, job, stalled, overProduced),
                                            job, flushedAll, ingestKeepsUp)
                            ELSE counted
    /\ UNCHANGED << prefs, displayLevel, proc, jobVars, sw, cz, dz, nm >>

AdaptNext == AdaptCompress \/ AdaptUpdate

SpecAdapt == AdaptInit /\ [][AdaptNext]_vars

\* C17 : a correction classified slower raises the level strictly, without passing
\* maxAdaptLevel, as long as the level is below maxAdaptLevel; and once the level has
\* been equal to maxAdaptLevel, it stays equal to it while every correction is
\* classified slower
C17_SlowerRaisesToMax ==
    ad.on =>
      /\ (ad.last.corrected /\ ad.last.change = "slower" /\ ad.last.before < prefs.maxAdaptLevel)
            => (ad.last.before < ad.last.after /\ ad.last.after <= prefs.maxAdaptLevel)
      /\ (ad.onlySlower /\ ad.reached) => ad.compressionLevel = prefs.maxAdaptLevel

\* the last refresh made a correction past the warm up period with an input that
\* was never blocked, and no slower condition held since the correction before
UnblockedTick ==
    /\ ad.on /\ ad.last.corrected
    /\ ad.lastJobID > prefs.nbWorkers + 1
    /\ ad.last.blocked = 0
    /\ ~ ad.last.seen

\* C25 (as stated) : a correction past the warm up period, with inputBlocked = 0 and
\* no slower condition seen, is classified faster and lowers the level
C25_UnblockedIsFaster ==
    UnblockedTick => (ad.last.change = "faster" /\ ad.last.after < ad.last.before)

\* C25 : a correction past the warm up period, with inputBlocked = 0 and no slower
\* condition seen, is classified slower, and raises the level when the level is
\* below maxAdaptLevel and below ZSTD_maxCLevel()
C25_UnblockedIsSlower ==
    UnblockedTick
      => /\ ad.last.change = "slower"
         /\ (ad.last.before < prefs.maxAdaptLevel /\ ad.last.before < ZSTD_maxCLevel)
               => ad.last.after > ad.last.before

C25_Witness ==
    UnblockedTick /\ ad.last.change = "slower" /\ ad.last.after = ad.last.before + 1

\* C26 (as stated) : the level is incremented only if one of the two slower
\* conditions (compression stopped with no active worker; more produced than 9/8 of
\* the flushed with no flush waiting) held since the correction before
C26_SlowerOnlyIfSeen ==
    (ad.on /\ ad.last.corrected /\ ad.last.change = "slower") => ad.last.seen

\* C26 : the level is incremented only if one of the two slower conditions held since
\* the correction before, or the correction is past the warm up period and its
\* inputBlocked counter is zero
C26_SlowerOnlyIfSeenOrUnblocked ==
    (ad.on /\ ad.last.corrected /\ ad.last.change = "slower")
      => \/ ad.last.seen
         \/ ad.lastJobID > prefs.nbWorkers + 1 /\ ad.last.blocked = 0

C26_Witness ==
    /\ ad.on /\ ad.last.corrected /\ ad.last.change = "slower"
    /\ ad.last.seen /\ ad.last.blocked > 0
    /\ ad.last.after > ad.last.before

\* C27 : after every update of the level, minAdaptLevel <= level <= maxAdaptLevel and
\* ZSTD_minCLevel() <= level <= ZSTD_maxCLevel(), for every starting level and every
\* minAdaptLevel <= maxAdaptLevel
C27_LevelInBounds ==
    (ad.on /\ ad.last.corrected /\ ad.last.change # "noChange")
      => /\ prefs.minAdaptLevel <= ad.last.after /\ ad.last.after <= prefs.maxAdaptLevel
         /\ ZSTD_minCLevel <= ad.last.after /\ ad.last.after <= ZSTD_maxCLevel

\* C28 : the level handed to the codec after an increment or a decrement is never 0,
\* whatever the level before and the adapt bounds
C28_NeverLevelZero ==
    (ad.on /\ ad.last.corrected /\ ad.last.change # "noChange") => ad.last.after # 0

C28_Witness ==
    /\ ad.on /\ ad.last.corrected /\ ad.last.change = "slower"
    /\ ad.last.before = 0 - 1 /\ ad.last.after = 1

\* C29 : the level changes only in a refresh where currentJobID > lastJobID and the
\* adaptive mode is on; lastJobID never decreases
C29_LevelChangesOnNewJob ==
    [][ ad.on
          => /\ ad'.compressionLevel # ad.compressionLevel
                  => (ad'.currentJobID > ad.lastJobID /\ prefs.adaptiveMode # 0)
             /\ ad'.lastJobID >= ad.lastJobID ]_vars

C29_Witness ==
    /\ ad.on /\ ad.last.corrected /\ ad.last.after # ad.last.before
    /\ ad.lastJobID = ad.currentJobID

(***************************************************************************)
(* Specification of FIO_determineDstName, the derivation of the name of a  *)
(* decompressed file. A C string is a sequence of characters.              *)
(***************************************************************************)
MaxStem == 1        \* characters of a source name before its ending : 0..MaxStem

\* ZSTD_EXTENSION ... TLZ4_EXTENSION, by format : the plain and the short tar form
Extensions ==
    [ zstd |-> << <<".", "z", "s", "t">>, <<".", "t", "z", "s", "t">> >>,
      alt  |-> << <<".", "z", "s", "t", "d">> >>,
      gz   |-> << <<".", "g", "z">>, <<".", "t", "g", "z">> >>,
      lzma |-> << <<".", "l", "z", "m", "a">>, <<".", "x", "z">>, <<".", "t", "x", "z">> >>,
      lz4  |-> << <<".", "l", "z", "4">>, <<".", "t", "l", "z", "4">> >> ]

suffixList(build) ==
    Extensions.zstd \o Extensions.alt
    \o (IF "gz" \in build THEN Extensions.gz ELSE << >>)
    \o (IF "lzma" \in build THEN Extensions.lzma ELSE << >>)
    \o (IF "lz4" \in build THEN Extensions.lz4 ELSE << >>)

StemsOfLen[n \in Nat] ==
    IF n = 0 THEN { << >> }
    ELSE { <<c>> \o s : c \in {"a", "/"}, s \in StemsOfLen[n - 1] }

Endings ==
    Range(suffixList(OptionalFormats))
    \cup { << >>, <<"z", "s", "t">>, <<".", "z", "s">>, <<".", "z", "s", "t", "a">>,
           <<".", "z", "s", "t", ".">> }

SrcFileNames ==
    { s \o e : s \in UNION { StemsOfLen[n] : n \in 0..MaxStem }, e \in Endings } \ { << >> }

\* no output directory : the empty string stands for a NULL outDirName
NoDir == << >>

OutDirNames == { NoDir, <<"o">>, <<"o", "/">> }

\* strrchr(s, c) : the position of the last c in s, 0 when there is none
strrchr(s, c) ==
    LET at == { i \in 1..Len(s) : s[i] = c }
    IN  IF at = {} THEN 0 ELSE CHOOSE i \in at : \A j \in at : j <= i

extractFilename(path, separator) ==
    SubSeq(path, strrchr(path, separator) + 1, Len(path))

FIO_createFilename_fromOutDir(path, outDirName) ==
    LET filenameStart == extractFilename(path, "/")
    IN  IF outDirName[Len(outDirName)] = "/"
        THEN outDirName \o filenameStart
        ELSE outDirName \o <<"/">> \o filenameStart

NameResult(ret, capacity, buffer, throw) ==
    [ ret |-> ret, dfnbCapacity |-> capacity, dstFileNameBuffer |-> buffer, throw |-> throw ]

\* the destination suffix that replaces the matched source suffix
DstSuffixNever(matchedSuffix) == << >>

DstSuffix(matchedSuffix) ==
    IF matchedSuffix[2] = "t" THEN <<".", "t", "a", "r">> ELSE << >>

\* the outcomes of one call : "NULL", or "buffer" with the static buffer rewritten;
\* a failed allocation ends the process
FIO_determineDstName(srcName, outDirName, build, dfnbCapacity, dstFileNameBuffer) ==
    LET dot         == strrchr(srcName, ".")
        srcSuffix   == SubSeq(srcName, dot, Len(srcName))
        srcSuffixLen == Len(srcSuffix)
        matched     == srcSuffix \in Range(suffixList(build))
        unchanged   == NameResult("NULL", dfnbCapacity, dstFileNameBuffer, 0)
    IN  IF dot = 0 THEN { unchanged }
        ELSE IF Len(srcName) <= srcSuffixLen \/ ~matched THEN { unchanged }
        ELSE
          LET dstSuffix == DstSuffix(srcSuffix)
              from      == IF outDirName # NoDir
                           THEN FIO_createFilename_fromOutDir(srcName, outDirName)
                           ELSE srcName
              sfnSize   == Len(from)
              grow      == dfnbCapacity + srcSuffixLen <= sfnSize + 1 + Len(dstSuffix)
              capacity  == IF grow THEN sfnSize + 20 ELSE dfnbCapacity
              endPos    == sfnSize - srcSuffixLen
              written   == SubSeq(from, 1, endPos) \o dstSuffix
          IN  { NameResult("buffer", capacity, written, 0) }
              \cup (IF outDirName # NoDir
                    THEN { NameResult("NULL", dfnbCapacity, dstFileNameBuffer, 30) } ELSE {})
              \cup (IF grow
                    THEN { NameResult("NULL", sfnSize + 20, << >>, 74) } ELSE {})

NamesInit ==
    /\ \E build \in { {}, OptionalFormats }, outDirName \in OutDirNames :
         nm = [ on                |-> TRUE,
                build             |-> build,
                dfnbCapacity      |-> 0,
                dstFileNameBuffer |-> << >>,
                called            |-> FALSE,
                srcName           |-> << >>,
                outDirName        |-> outDirName,
                ret               |-> "NULL" ]
    /\ prefs = FIO_createPreferences
    /\ displayLevel = 2
    /\ proc = Running
    /\ IdleJob /\ IdleSw /\ IdleCz /\ IdleDz /\ IdleAd

NmCall(srcName, r) ==
    [ nm EXCEPT !.dfnbCapacity      = r.dfnbCapacity,
                !.dstFileNameBuffer = r.dstFileNameBuffer,
                !.called            = TRUE,
                !.srcName           = srcName,
                !.ret               = r.ret ]

\* a call that returns
NmDetermine ==
    /\ proc.st = "running" /\ nm.on
    /\ \E srcName \in SrcFileNames :
       \E r \in FIO_determineDstName(srcName, nm.outDirName, nm.build,
                                     nm.dfnbCapacity, nm.dstFileNameBuffer) :
         /\ r.throw = 0
         /\ nm' = NmCall(srcName, r)
    /\ UNCHANGED << prefs, displayLevel, proc, jobVars, sw, cz, dz, ad >>

\* a call in which an allocation fails
NmThrow ==
    /\ proc.st = "running" /\ nm.on
    /\ \E srcName \in SrcFileNames :
       \E r \in FIO_determineDstName(srcName, nm.outDirName, nm.build,
                                     nm.dfnbCapacity, nm.dstFileNameBuffer) :
         /\ r.throw # 0
         /\ nm' = NmCall(srcName, r)
         /\ proc' = EXM_THROW(r.throw)
    /\ UNCHANGED << prefs, displayLevel, jobVars, sw, cz, dz, ad >>

NamesNext == NmDetermine \/ NmThrow

SpecNames == NamesInit /\ [][NamesNext]_vars

\* the recognised suffix a name ends in : a set with at most one element
EndsIn(name, build) ==
    { e \in Range(suffixList(build)) :
        Len(name) >= Len(e) /\ SubSeq(name, Len(name) - Len(e) + 1, Len(name)) = e }

Stripped(name, e) == SubSeq(name, 1, Len(name) - Len(e))

ShortTar(e) == e \in { Extensions.zstd[2], Extensions.gz[2], Extensions.lzma[3], Extensions.lz4[2] }

NmReturned == nm.on /\ nm.called /\ proc.st = "running"

\* C18 (as stated) : the call returns NULL iff the source name ends in no recognised
\* suffix, and otherwise returns the source name without that suffix, with ".tar"
\* appended for the short tar forms
C18_NullIffUnrecognised ==
    NmReturned =>
      LET ends == EndsIn(nm.srcName, nm.build) IN
      /\ nm.ret = "NULL" <=> ends = {}
      /\ \A e \in ends :
           nm.dstFileNameBuffer = Stripped(nm.srcName, e)
                                  \o (IF ShortTar(e) THEN <<".", "t", "a", "r">> ELSE << >>)

\* C18 (amended) : the call returns NULL iff the source name ends in no recognised
\* suffix or is that suffix alone; otherwise it returns the name (the source name, or
\* its file name in the output directory when one is given) without that suffix, with
\* ".tar" appended for the short tar forms
C18_NullIffNoStem ==
    NmReturned =>
      LET ends == EndsIn(nm.srcName, nm.build)
          name == IF nm.outDirName = NoDir
                  THEN nm.srcName
                  ELSE (IF nm.outDirName[Len(nm.outDirName)] = "/"
                        THEN nm.outDirName ELSE nm.outDirName \o <<"/">>)
                       \o extractFilename(nm.srcName, "/")
      IN
      /\ nm.ret = "NULL" <=> (ends = {} \/ nm.srcName \in ends)
      /\ \A e \in ends :
           nm.srcName # e =>
             nm.dstFileNameBuffer = Stripped(name, e)
                                    \o (IF ShortTar(e) THEN <<".", "t", "a", "r">> ELSE << >>)

\* a short tar name was derived into an output directory
C18_Witness ==
    /\ NmReturned /\ nm.ret = "buffer" /\ nm.outDirName # NoDir
    /\ \E e \in EndsIn(nm.srcName, nm.build) : ShortTar(e)

(***************************************************************************)
(* Specification of the signal guard : addHandler and clearHandler called  *)
(* in any order, on a file system that changes between the calls.          *)
(***************************************************************************)
GuardFs == [ x \in Names |-> IF x \in { stdinmark, stdoutmark } THEN "stream"
                             ELSE IF x = nulmark THEN "chardev"
                             ELSE "absent" ]

GuardInit ==
    /\ prefs = FIO_createPreferences
    /\ displayLevel = 2
    /\ proc = Running
    /\ op = "none" /\ mode = "none" /\ srcNames = << >> /\ outFileName = NoName
    /\ fs = GuardFs /\ data = [x \in Names |-> << >>]
    /\ fCtx = [currFileIdx |-> 0, nbFilesTotal |-> 1, nbFilesProcessed |-> 0,
               hasStdoutOutput |-> 0]
    /\ pc = "guard" /\ dstName = NoName /\ srcFile = NoName /\ srcPos = 0
    /\ dstFile = NoFile /\ result = 0 /\ error = 0 /\ status = << >>
    /\ g_artefact = NoName /\ sigint = "DFL" /\ eng = 0
    /\ hist = InitHist(GuardFs, [x \in Names |-> << >>])
    /\ IdleSw /\ IdleCz /\ IdleDz /\ IdleAd /\ IdleNm

GuardOn == pc \in { "guard", "guard_add", "guard_clear", "guard_fs" }

\* addHandler(dstFileName), for any name
GuardAdd ==
    /\ proc.st = "running" /\ GuardOn
    /\ \E dstFileName \in FileNames \cup { stdoutmark, nulmark } : addHandler(dstFileName)
    /\ pc' = "guard_add"
    /\ UNCHANGED << prefs, displayLevel, proc, op, mode, srcNames, outFileName, fs, data,
                    fCtx, dstName, srcFile, srcPos, dstFile, result, error, status,
                    eng, hist, idle >>

\* clearHandler()
GuardClear ==
    /\ proc.st = "running" /\ GuardOn
    /\ clearHandler
    /\ pc' = "guard_clear"
    /\ UNCHANGED << prefs, displayLevel, proc, op, mode, srcNames, outFileName, fs, data,
                    fCtx, dstName, srcFile, srcPos, dstFile, result, error, status,
                    eng, hist, idle >>

\* between two calls a file is created or removed
GuardFsChange ==
    /\ proc.st = "running" /\ GuardOn
    /\ \E n \in FileNames :
         fs' = [fs EXCEPT ![n] = IF @ = "regular" THEN "absent" ELSE "regular"]
    /\ pc' = "guard_fs"
    /\ UNCHANGED << prefs, displayLevel, proc, op, mode, srcNames, outFileName, data,
                    fCtx, dstName, srcFile, srcPos, dstFile, result, error, status,
                    g_artefact, sigint, eng, hist, idle >>

GuardNext == GuardAdd \/ GuardClear \/ GuardFsChange

SpecGuard == GuardInit /\ [][GuardNext]_vars

\* C19 : after any sequence of addHandler and clearHandler calls the handler is
\* installed iff g_artefact is not NULL; g_artefact is set only to a name that is a
\* regular file at the call; and a clearHandler that follows a clearHandler changes
\* nothing
C19_GuardInvariant ==
    /\ [](GuardOn => (sigint = "INThandler" <=> g_artefact # NoName))
    /\ [][(pc' = "guard_add" /\ g_artefact' # NoName)
             => UTIL_isRegularFile(fs, g_artefact')]_vars
    /\ [][(pc = "guard_clear" /\ pc' = "guard_clear")
             => (g_artefact' = g_artefact /\ sigint' = sigint)]_vars

(***************************************************************************)
(* Specification of compression jobs with the exclusion of compressed      *)
(* files : the orchestrator, started with excludeCompressedFiles set or    *)
(* not, on inputs of which any may bear a compressed extension.            *)
(***************************************************************************)
ExcludeInit == JobInitWith({"compress"}, {0, 1})

ExcludeNext ==
    \/ SingleStart \/ PerFileStart \/ OneOutWarning \/ OneOutOpen
    \/ LoopNext \/ LoopSkip \/ LoopExit \/ OneOutClose \/ BatchReturn
    \/ SrcBegin \/ DstBegin \/ AddHandler \/ ClearHandler \/ DstClose \/ DstRemove
    \/ SrcClose \/ SrcRemove \/ FileReturn
    \/ CompressBlock \/ CompressEnd \/ CompressThrow
    \/ SIGINT

SpecExclude == ExcludeInit /\ [][ExcludeNext]_vars

\* input i bears a compressed extension in a job that excludes compressed files
ExcludeApplies(i) ==
    op = "compress" /\ prefs.excludeCompressedFiles = 1 /\ i \in nm.compressed

\* the run of input i returned 0 and touched nothing
SkippedUntouched(i) ==
    /\ status[i] = 0
    /\ i \notin hist.srcOpened
    /\ \A o \in hist.opens : o.by # i
    /\ \A n \in Names : \A k \in DOMAIN data[n] :
         data[n][k].id = i => data[n][k].t = "plain"
    /\ i \notin hist.rmOk
    \* with one destination for the whole batch, the batch itself opens it
    /\ mode # "oneout" => /\ fs[srcNames[i]] = hist.fs0[srcNames[i]]
                          /\ data[srcNames[i]] = hist.data0[srcNames[i]]
                          /\ srcNames[i] \notin hist.unlinked
                          /\ fs[DstOf(i)] = hist.fs0[DstOf(i)]
                          /\ data[DstOf(i)] = hist.data0[DstOf(i)]

\* C20 (as stated) : with excludeCompressedFiles set, the run of a source that bears a
\* compressed extension returns 0 without opening the source, without creating or
\* modifying a destination and without removing the source
C20_ExcludedSkipped ==
    \A i \in Inputs :
      (ExcludeApplies(i) /\ RunReturned(i)) => SkippedUntouched(i)

\* C20 (amended) : the same, for a source that is not a directory
C20_ExcludedFileSkipped ==
    \A i \in Inputs :
      (ExcludeApplies(i) /\ RunReturned(i) /\ ~ UTIL_isDirectory(hist.fs0, srcNames[i]))
        => SkippedUntouched(i)

\* an excluded regular file was skipped in a job that removes its sources
C20_Witness ==
    \E i \in Inputs :
      /\ ExcludeApplies(i) /\ RunReturned(i)
      /\ hist.fs0[srcNames[i]] = "regular"
      /\ prefs.removeSrcFile # 0

(***************************************************************************)
(* Specification of FIO_openDstFile alone : calls on any destination name, *)
(* under any sparse mode, overwrite mode, test mode and display level.     *)
(***************************************************************************)
OpenFs(pre) == [ GuardFs EXCEPT ![InName(1)] = "regular",
                                ![ExplicitName] = IF pre THEN "regular" ELSE "absent" ]

OpenDstInit ==
    /\ \E sparse \in 0..2, overwrite \in 0..1, testMode \in 0..1 :
         prefs = [FIO_createPreferences EXCEPT !.sparseFileSupport = sparse,
                                               !.overwrite = overwrite,
                                               !.testMode = testMode]
    /\ displayLevel \in 1..2
    /\ proc = Running
    /\ op = "none" /\ mode = "none" /\ srcNames = << >> /\ outFileName = NoName
    /\ \E pre \in BOOLEAN :
         /\ fs = OpenFs(pre)
         /\ hist = InitHist(OpenFs(pre), [x \in Names |-> << >>])
    /\ data = [x \in Names |-> << >>]
    /\ fCtx = [currFileIdx |-> 0, nbFilesTotal |-> 1, nbFilesProcessed |-> 0,
               hasStdoutOutput |-> 0]
    /\ pc = "open" /\ dstName = NoName /\ srcFile = NoName /\ srcPos = 0
    /\ dstFile = NoFile /\ result = 0 /\ error = 0 /\ status = << >>
    /\ g_artefact = NoName /\ sigint = "DFL" /\ eng = 0
    /\ IdleSw /\ IdleCz /\ IdleDz /\ IdleAd /\ IdleNm

\* one call of FIO_openDstFile; the handle it returns is closed before the next call
OpenDstCall ==
    /\ proc.st = "running" /\ pc \in {"open", "opened"}
    /\ \E srcName \in {NoName, InName(1)},
          dstFileName \in {stdoutmark, nulmark, ExplicitName, InName(1)} :
       \E o \in FIO_openDstFile(srcName, dstFileName, TRUE) :
         /\ fs' = o.fs /\ data' = o.data
         /\ prefs' = [prefs EXCEPT !.sparseFileSupport = o.sparse]
         /\ dstFile' = o.h
         /\ dstName' = dstFileName
         /\ hist' = [hist EXCEPT !.unlinked = @ \cup o.unl,
                                 !.confirmed = @ \cup o.yes,
                                 !.prefsAtOpen = prefs]
    /\ pc' = "opened"
    /\ UNCHANGED << displayLevel, proc, op, mode, srcNames, outFileName, fCtx,
                    srcFile, srcPos, result, error, status, g_artefact, sigint,
                    eng, idle >>

OpenDstNext == OpenDstCall

SpecOpenDst == OpenDstInit /\ [][OpenDstNext]_vars

MaxOutBuf == 3       \* size of the output buffer of the decoders (at most OneGB)

OutBuffers == UNION { SeqsOfLen(n) : n \in 0..MaxOutBuf }

\* storedSkips = FIO_fwriteSparse(ress->dstFile, ress->dstBuffer, outBuff.pos, ...)
SkipWrite ==
    /\ proc.st = "running" /\ sw.on
    /\ \E buffer \in OutBuffers :
         /\ Len(sw.passed) + Len(buffer) <= MaxTotal
         /\ LET r == FIO_fwriteSparse(sw.file, buffer, sw.storedSkips) IN
              sw' = [sw EXCEPT !.file = r.file, !.storedSkips = r.storedSkips,
                               !.passed = @ \o buffer, !.last = Len(buffer),
                               !.ended = FALSE]
    /\ UNCHANGED << prefs, displayLevel, proc, jobVars, cz, dz, ad, nm >>

SkipsNext == SkipWrite \/ SparseWriteThrow \/ SparseEnd \/ SparseEndThrow

SpecSkips == SparseInit /\ [][SkipsNext]_vars

\* C32 : with buffers no longer than the output buffer, storedSkips is at most
\* 1 GB plus one buffer on return, the unsigned counter has not wrapped (it still is
\* the number of bytes passed less the position), and no seek went further
C32_SkipBounded ==
    SparseOn
      => /\ sw.storedSkips <= OneGB + MaxOutBuf
         /\ sw.storedSkips < UIntRange
         /\ sw.file.pos + sw.storedSkips = Len(sw.passed)
         /\ sw.file.far <= OneGB + MaxOutBuf

\* zeros only : the counter has reached 1 GB plus one buffer
C32_Witness ==
    /\ SparseOn /\ proc.st = "running" /\ ~ sw.ended
    /\ sw.storedSkips = OneGB + MaxOutBuf
    /\ sw.last = MaxOutBuf

(***************************************************************************)
(* Specification of resource creation : FIO_createCResources and           *)
(* FIO_createDResources up to the dictionary, with the patch-from           *)
(* adjustment and the dictionary loader. Sizes are scaled down. The         *)
(* compression parameters and ldmFlag, which FIO_adjustParamsForPatchFromMode*)
(* also sets, are read by no step modelled here and are left out.           *)
(***************************************************************************)
MaxPatchSize == 3    \* sizes of the dictionary and of the sources, memLimit : 0..MaxPatchSize
MaxWindowSize == 2   \* 1U << ZSTD_WINDOWLOG_MAX, scaled
DICTSIZE_MAX == 1    \* 32 MB, scaled

PatchSizes == 0..MaxPatchSize

\* process ended by a failed assert (builds without NDEBUG)
Aborted == [st |-> "aborted", code |-> 0]

\* the values a read of an int that was never written can give
AnyInt == {0 - 1, 0, 1, 2}

\* prefs->field : a field no one wrote holds whatever malloc returned
ReadField(p, field) == IF field \in p.indeterminate THEN AnyInt ELSE {p[field]}

\* MAX() on unsigned long long : UTIL_FILESIZE_UNKNOWN, (U64)(-1), is the largest
MAX(a, b) ==
    IF a = UTIL_FILESIZE_UNKNOWN \/ b = UTIL_FILESIZE_UNKNOWN THEN UTIL_FILESIZE_UNKNOWN
    ELSE IF a > b THEN a ELSE b

RECURSIVE HighbitLoop(_, _)
\* while (v) { v >>= 1; count++; }
HighbitLoop(v, count) == IF v = 0 THEN count ELSE HighbitLoop(v \div 2, count + 1)

\* FIO_highbit64 once the assert has passed or was compiled out
FIO_highbit64(v) == IF v = UTIL_FILESIZE_UNKNOWN THEN 63 ELSE HighbitLoop(v \div 2, 0)

FIO_adjustMemLimitKeepsLimit(p, dictSize, maxSrcFileSize) ==
    LET maxSize == MAX(p.memLimit, MAX(dictSize, maxSrcFileSize)) IN
    IF maxSize = UTIL_FILESIZE_UNKNOWN
      THEN [thrown |-> TRUE, msg |-> "requires --stream-size", prefs |-> p]
    ELSE IF maxSize > MaxWindowSize
      THEN [thrown |-> TRUE, msg |-> "larger than the window", prefs |-> p]
    ELSE [thrown |-> FALSE, msg |-> "", prefs |-> p]

\* FIO_adjustMemLimitForPatchFromMode : the preferences it leaves, or EXM_THROW(42)
FIO_adjustMemLimitForPatchFromMode(p, dictSize, maxSrcFileSize) ==
    LET maxSize == MAX(p.memLimit, MAX(dictSize, maxSrcFileSize)) IN
    IF maxSize = UTIL_FILESIZE_UNKNOWN
      THEN [thrown |-> TRUE, msg |-> "requires --stream-size", prefs |-> p]
    ELSE IF maxSize > MaxWindowSize
      THEN [thrown |-> TRUE, msg |-> "larger than the window", prefs |-> p]
    ELSE [thrown |-> FALSE, msg |-> "", prefs |-> [p EXCEPT !.memLimit = maxSize]]

\* the states after FIO_createPreferences and the setters of the fields read here;
\* a dictionary name is given or not, and without one UTIL_getFileSize fails
PatchInit ==
    /\ \E operation \in {"compress", "decompress"}, hasDict \in BOOLEAN,
          maxSrcFileSize \in PatchSizes \cup {UTIL_FILESIZE_UNKNOWN} :
         \E dictSize \in IF hasDict THEN PatchSizes \cup {UTIL_FILESIZE_UNKNOWN}
                                    ELSE {UTIL_FILESIZE_UNKNOWN} :
           nm = [ on             |-> TRUE,
                  operation      |-> operation,
                  at             |-> "prefs",
                  hasDict        |-> hasDict,
                  dictSize       |-> dictSize,       \* UTIL_getFileSize(dictFileName)
                  maxSrcFileSize |-> IF operation = "compress" THEN maxSrcFileSize ELSE 0,
                  patch          |-> 0,              \* what prefs->patchFromMode read as
                  readUnwritten  |-> {},             \* fields read before any write
                  highbitArgs    |-> << >>,          \* arguments of the calls of FIO_highbit64
                  adjusted       |-> FALSE,          \* the adjustment returned
                  memLimitBefore |-> 0,
                  fileWindowLog  |-> 0,
                  cctx           |-> [contentSizeFlag |-> 0, useRowMatchFinder |-> 0,
                                      dict |-> "none"],
                  dictBufferSize |-> 0,
                  msg            |-> "" ]
    /\ prefs = FIO_createPreferences
    /\ displayLevel = 2
    /\ proc = Running
    /\ IdleJob /\ IdleSw /\ IdleCz /\ IdleDz /\ IdleAd

\* the caller's setters, before the resources are created
PatchSetters ==
    /\ nm.on /\ nm.at = "prefs"
    /\ \/ \E memLimit \in PatchSizes : FIO_setMemLimit(memLimit)
       \/ \E value \in 0..1 : FIO_setPatchFromMode(value)
       \/ \E value \in 0..1 : FIO_setContentSize(value)
       \/ \E value \in 0..2 : FIO_setUseRowMatchFinder(value)
       \/ \E streamSrcSize \in {0, MaxPatchSize} : FIO_setStreamSrcSize(streamSrcSize)

\* if (prefs->patchFromMode) at the head of FIO_createCResources / FIO_createDResources
ResTestPatchFrom ==
    /\ proc.st = "running" /\ nm.on /\ nm.at = "prefs"
    /\ \E v \in ReadField(prefs, "patchFromMode") :
         nm' = [nm EXCEPT !.patch = v,
                          !.readUnwritten = @ \cup (prefs.indeterminate \cap {"patchFromMode"}),
                          !.memLimitBefore = prefs.memLimit,
                          !.at = IF v = 0 THEN "dict"
                                 ELSE IF nm.operation = "compress" THEN "highbit"
                                 ELSE "memlimit"]
    /\ UNCHANGED << prefs, displayLevel, proc, jobVars, sw, cz, dz, ad >>

\* FIO_adjustParamsForPatchFromMode(prefs, &comprParams, UTIL_getFileSize(dictFileName),
\*     ssSize > 0 ? ssSize : maxSrcFileSize, cLevel), its first statement :
\* fileWindowLog = FIO_highbit64(maxSrcFileSize) + 1, where assert(v != 0) aborts the
\* builds that keep asserts
ResHighbit ==
    /\ proc.st = "running" /\ nm.on /\ nm.at = "highbit"
    /\ LET v == IF prefs.streamSrcSize > 0 THEN prefs.streamSrcSize ELSE nm.maxSrcFileSize IN
         \/ /\ v = 0
            /\ proc' = Aborted
            /\ nm' = [nm EXCEPT !.highbitArgs = Append(@, v), !.maxSrcFileSize = v]
         \/ /\ UNCHANGED proc
            /\ nm' = [nm EXCEPT !.highbitArgs = Append(@, v), !.maxSrcFileSize = v,
                                !.fileWindowLog = FIO_highbit64(v) + 1,
                                !.at = "memlimit"]
    /\ UNCHANGED << prefs, displayLevel, jobVars, sw, cz, dz, ad >>

\* FIO_adjustMemLimitForPatchFromMode(prefs, dictSize, maxSrcFileSize); decompression
\* passes 0 for maxSrcFileSize
ResAdjustMemLimit ==
    /\ proc.st = "running" /\ nm.on /\ nm.at = "memlimit"
    /\ LET r == FIO_adjustMemLimitForPatchFromMode(prefs, nm.dictSize, nm.maxSrcFileSize) IN
         IF r.thrown
           THEN /\ proc' = EXM_THROW(42)
                /\ nm' = [nm EXCEPT !.msg = r.msg]
                /\ UNCHANGED prefs
           ELSE /\ prefs' = r.prefs
                /\ nm' = [nm EXCEPT !.adjusted = TRUE, !.at = "dict"]
                /\ UNCHANGED proc
    /\ UNCHANGED << displayLevel, jobVars, sw, cz, dz, ad >>

\* FIO_createDictBuffer(&buffer, dictFileName, prefs); the memory read for
\* prefs->patchFromMode is the same as at the head, so is the value
ResCreateDictBuffer ==
    /\ proc.st = "running" /\ nm.on /\ nm.at = "dict"
    /\ LET next == IF nm.operation = "compress" THEN "params" ELSE "done"
           dictSizeMax == IF nm.patch # 0 THEN prefs.memLimit ELSE DICTSIZE_MAX IN
         IF ~ nm.hasDict
           THEN /\ nm' = [nm EXCEPT !.at = next]
                /\ UNCHANGED proc
         ELSE IF nm.dictSize = UTIL_FILESIZE_UNKNOWN
           THEN /\ proc' = EXM_THROW(32)
                /\ nm' = [nm EXCEPT !.msg = "not supported"]
         ELSE IF nm.dictSize > dictSizeMax
           THEN /\ proc' = EXM_THROW(32)
                /\ nm' = [nm EXCEPT !.msg = "too large"]
         ELSE \E fopenOk \in BOOLEAN, mallocOk \in BOOLEAN, readOk \in BOOLEAN :
                IF ~ fopenOk
                  THEN /\ proc' = EXM_THROW(31)
                       /\ nm' = [nm EXCEPT !.msg = "fopen"]
                ELSE IF ~ mallocOk
                  THEN /\ proc' = EXM_THROW(34)
                       /\ nm' = [nm EXCEPT !.msg = "malloc"]
                ELSE IF ~ readOk
                  THEN /\ proc' = EXM_THROW(35)
                       /\ nm' = [nm EXCEPT !.msg = "fread"]
                ELSE /\ nm' = [nm EXCEPT !.dictBufferSize = nm.dictSize, !.at = next]
                     /\ UNCHANGED proc
    /\ UNCHANGED << prefs, displayLevel, jobVars, sw, cz, dz, ad >>

\* the parameters FIO_createCResources hands to the codec from fields that
\* FIO_createPreferences leaves unwritten, and the dictionary
ResSetParameters ==
    /\ proc.st = "running" /\ nm.on /\ nm.at = "params"
    /\ \E contentSize \in ReadField(prefs, "contentSize"),
          useRowMatchFinder \in ReadField(prefs, "useRowMatchFinder") :
         nm' = [nm EXCEPT !.cctx = [contentSizeFlag   |-> contentSize,
                                    useRowMatchFinder |-> useRowMatchFinder,
                                    dict |-> IF nm.patch # 0 THEN "prefix" ELSE "dictionary"],
                          !.readUnwritten = @ \cup (prefs.indeterminate
                                                      \cap {"contentSize", "useRowMatchFinder"}),
                          !.at = "done"]
    /\ UNCHANGED << prefs, displayLevel, proc, jobVars, sw, cz, dz, ad >>

PatchNext ==
    \/ PatchSetters
    \/ ResTestPatchFrom
    \/ ResHighbit
    \/ ResAdjustMemLimit
    \/ ResCreateDictBuffer
    \/ ResSetParameters

SpecPatch == PatchInit /\ [][PatchNext]_vars

\* C35 : when the patch-from adjustment returns, memLimit is the largest of the old
\* memLimit, the dictionary size and the largest source size, hence not below the
\* old memLimit nor the dictionary size, and the dictionary loader that follows
\* does not reject the reference file as too large
C35_MemLimitCoversDict ==
    (nm.on /\ nm.patch # 0)
      => /\ nm.adjusted
            => /\ prefs.memLimit = MAX(nm.memLimitBefore, MAX(nm.dictSize, nm.maxSrcFileSize))
               /\ prefs.memLimit >= nm.memLimitBefore
               /\ prefs.memLimit >= nm.dictSize
         /\ nm.msg # "too large"

\* the limit was raised to the size of the reference file, which was then loaded
C35_Witness ==
    /\ nm.on /\ nm.patch # 0 /\ nm.adjusted /\ nm.at \in {"params", "done"}
    /\ nm.memLimitBefore < nm.dictSize /\ nm.maxSrcFileSize < nm.dictSize
    /\ prefs.memLimit = nm.dictSize /\ nm.dictBufferSize = nm.dictSize
    /\ nm.dictSize > DICTSIZE_MAX

\* C37 : the argument of every call of FIO_highbit64 is not 0, also in patch-from
\* compression when the largest source file is empty and no stream size was given
C37_HighbitArgNotZero ==
    nm.on => \A i \in 1..Len(nm.highbitArgs) : nm.highbitArgs[i] # 0

\* C39 : after FIO_createPreferences, with or without setter calls, no field
\* (patchFromMode, contentSize, useRowMatchFinder or another) is read by the
\* creation of the resources before it was written
C39_NoReadBeforeWrite ==
    nm.on => nm.readUnwritten = {}

(***************************************************************************)
(* Specification of two adaptive runs of FIO_compressZstdFrame that differ *)
(* in the progress setting only : `ad' runs under FIO_ps_never, `nm' under *)
(* FIO_ps_auto or FIO_ps_always. Both make the same calls of the           *)
(* compressor, get the same report of the library and read the same clock. *)
(* The run under FIO_ps_never makes no comparison on the report, so the    *)
(* outcomes drawn are those of the comparisons of the other run.           *)
(***************************************************************************)
MaxTime == 3         \* readings of the clock : 0..MaxTime
g_refreshRate == 1   \* SEC_TO_MICRO / 6, scaled

READY_FOR_UPDATE(progressSetting, clockSpan) ==
    progressSetting # "never" /\ clockSpan > g_refreshRate

\* lines 1419-1447 : g_displayClock after the progress notification made at `now',
\* by DISPLAYUPDATE(3, ...) or by DELAY_NEXT_UPDATE()
NotifiedClock(a, now) ==
    IF displayLevel >= 3
      THEN (IF a.progressSetting # "never" THEN now ELSE a.clock)
    ELSE IF displayLevel >= 2 \/ a.progressSetting = "always" THEN now
    ELSE a.clock

\* one iteration of the inner loop, lines 1390-1535 : the call of the compressor,
\* then, if READY_FOR_UPDATE(), the notification and the adaptation
Iteration(a, in) ==
    LET stats == [CountStats(a, in.blocked, in.toFlushNow) EXCEPT !.currentJobID = in.job] IN
    IF READY_FOR_UPDATE(a.progressSetting, in.now - a.clock)
      THEN LET shown == [stats EXCEPT !.clock = NotifiedClock(stats, in.now)]
               r     == IF prefs.adaptiveMode # 0
                          THEN Correction(OutputCheck(shown, in.job, in.stalled,
                                                      in.overProduced),
                                          in.job, in.flushedAll, in.ingestKeepsUp)
                          ELSE [shown EXCEPT !.last = [ corrected |-> FALSE ]]
           IN  [r EXCEPT !.pushed = IF r.last.corrected /\ r.last.change # "noChange"
                                      THEN Append(@, r.last.after) ELSE @]
      ELSE [stats EXCEPT !.last = [ corrected |-> FALSE ]]

PairRun(level, progressSetting) ==
    [ on               |-> TRUE,
      progressSetting  |-> progressSetting,
      clock            |-> 0,        \* g_displayClock
      now              |-> 0,        \* the last reading of the clock
      pushed           |-> << >>,    \* levels handed to ZSTD_CCtx_setParameter
      compressionLevel |-> level,
      speedChange      |-> "noChange",
      flushWaiting     |-> 0,
      inputPresented   |-> 0,
      inputBlocked     |-> 0,
      lastJobID        |-> 0,
      currentJobID     |-> 0,
      reached          |-> FALSE,
      onlySlower       |-> TRUE,
      seen             |-> FALSE,
      last             |-> [ corrected |-> FALSE ] ]

PairInit ==
    /\ \E level \in ZSTD_minCLevel..ZSTD_maxCLevel, nbWorkers \in 1..MaxWorkers,
          progressSetting \in { "auto", "always" } :
         /\ prefs = [FIO_createPreferences EXCEPT !.nbWorkers = nbWorkers,
                                                  !.adaptiveMode = 1,
                                                  !.minAdaptLevel = ZSTD_minCLevel,
                                                  !.maxAdaptLevel = ZSTD_maxCLevel]
         /\ ad = PairRun(level, "never")
         /\ nm = PairRun(level, progressSetting)
    /\ displayLevel \in 1..3
    /\ proc = Running
    /\ IdleJob /\ IdleSw /\ IdleCz /\ IdleDz

\* the same iteration in both runs
PairIteration ==
    /\ proc.st = "running" /\ ad.on /\ nm.on
    /\ nm.inputPresented < MaxPresented
    /\ \E blocked \in BOOLEAN, toFlushNow \in BOOLEAN,
          job \in nm.currentJobID..(nm.currentJobID + 1),
          now \in nm.now..(nm.now + g_refreshRate + 1) :
         /\ job <= MaxJobs /\ now <= MaxTime
         /\ LET ready  == READY_FOR_UPDATE(nm.progressSetting, now - nm.clock)
                output == ready /\ job > 1
                input  == ready /\ NewJob(job, nm.lastJobID) /\ WarmedUp(job)
            IN  \E stalled \in (IF output THEN BOOLEAN ELSE {FALSE}),
                   overProduced \in (IF output THEN BOOLEAN ELSE {FALSE}),
                   flushedAll \in (IF input THEN BOOLEAN ELSE {FALSE}),
                   ingestKeepsUp \in (IF input THEN BOOLEAN ELSE {FALSE}) :
                  LET in == [ now |-> now, blocked |-> blocked, toFlushNow |-> toFlushNow,
                              job |-> job, stalled |-> stalled,
                              overProduced |-> overProduced, flushedAll |-> flushedAll,
                              ingestKeepsUp |-> ingestKeepsUp ]
                  IN  /\ ad' = [Iteration(ad, in) EXCEPT !.now = now]
                      /\ nm' = [Iteration(nm, in) EXCEPT !.now = now]
    /\ UNCHANGED << prefs, displayLevel, proc, jobVars, sw, cz, dz >>

PairNext == PairIteration

SpecPair == PairInit /\ [][PairNext]_vars

\* C40 : two adaptive runs that differ only in the progress setting, never on one
\* side and auto or always on the other, and that see the same report of the codec
\* and the same clock, have handed the same sequence of levels to the encoder
C40_SameLevels ==
    (ad.on /\ nm.on /\ ad.progressSetting = "never" /\ nm.progressSetting # "never")
      => ad.pushed = nm.pushed

====
